---------------------------- MODULE Spec2Model ----------------------------
(***************************************************************************)
(* Model of the OHH -> PokerStars converter (src-tauri/src/converter.rs).   *)
(*                                                                          *)
(* Representation                                                           *)
(*   - a Rust String without line breaks is a TLA+ string; format! and      *)
(*     push are string concatenation (\o);                                  *)
(*   - a text is the sequence of its lines (the text split on "\n"): the    *)
(*     empty text is <<"">>, and join("\n") of texts is the concatenation   *)
(*     of their line sequences;                                             *)
(*   - an f64 amount is a fixed-point integer in thousandths of a unit      *)
(*     (mills): 0.05 is 50, 0.999 is 999, 1000.0 is 1000000;                *)
(*   - Option<T> is a sequence of length <= 1: <<>> is None, <<v>> Some(v); *)
(*   - a card string is the sequence of its characters, each a string; a    *)
(*     character outside ASCII occupies two bytes of the UTF-8 encoding;    *)
(*   - a call that panics is reported by a ...Panics predicate beside the   *)
(*     operator that computes the value of the call when it returns.        *)
(***************************************************************************)
EXTENDS Integers, Sequences, FiniteSets, TLC

VARIABLES call, arg, ret

vars == <<call, arg, ret>>

---------------------------------------------------------------------------
(* Option<T> and small helpers                                             *)

None == <<>>

Some(v) == <<v>>

IsSome(o) == Len(o) > 0

Unwrap(o) == o[1]

unwrap_or(o, d) == IF IsSome(o) THEN o[1] ELSE d

Abs(x) == IF x < 0 THEN 0 - x ELSE x

RECURSIVE ConcatAll(_)
(* The concatenation of a sequence of strings. *)
ConcatAll(ss) ==
    IF ss = <<>> THEN "" ELSE Head(ss) \o ConcatAll(Tail(ss))

RECURSIVE JoinStr(_, _)
(* [String].join(sep) for strings without line breaks. *)
JoinStr(ss, sep) ==
    IF ss = <<>> THEN ""
    ELSE IF Len(ss) = 1 THEN ss[1]
    ELSE ss[1] \o sep \o JoinStr(Tail(ss), sep)

RECURSIVE Flatten(_)
(* The concatenation of a sequence of sequences. *)
Flatten(ss) ==
    IF ss = <<>> THEN <<>> ELSE Head(ss) \o Flatten(Tail(ss))

DigitChar(d) == <<"0", "1", "2", "3", "4", "5", "6", "7", "8", "9">>[d + 1]

RECURSIVE to_string_chars(_)
(* i64::to_string / u8::to_string of a non-negative integer, as characters. *)
to_string_chars(n) ==
    IF n < 10 THEN <<DigitChar(n)>>
    ELSE to_string_chars(n \div 10) \o <<DigitChar(n % 10)>>

to_string(n) == ConcatAll(to_string_chars(n))

---------------------------------------------------------------------------
(* fmt_money                                                                *)

(* abs_val as i64: the amount truncated to whole units. *)
Dollars(x) == Abs(x) \div 1000

(* ((abs_val - dollars as f64) * 100.0).round() as i64: the fraction in     *)
(* hundredths, rounded half away from zero; 995..999 mills give 100.        *)
Cents(x) == ((Abs(x) % 1000) + 5) \div 10

(* A loop without the test i > 0: a "," ahead of a first group of three. *)
GroupedFromStart(s) ==
    Flatten([k \in 1..Len(s) |->
        IF (Len(s) - (k - 1)) % 3 = 0 THEN <<",", s[k]>> ELSE <<s[k]>>])

(* The loop of lines 237-242 over the digits s of the dollar part: a ","    *)
(* before digit i (0-based) when i > 0 and (len - i) % 3 = 0.               *)
Grouped(s) ==
    Flatten([k \in 1..Len(s) |->
        IF (k - 1) > 0 /\ (Len(s) - (k - 1)) % 3 = 0
        THEN <<",", s[k]>>
        ELSE <<s[k]>>])

dollars_str(dollars) ==
    IF dollars >= 1000 THEN Grouped(to_string_chars(dollars))
    ELSE to_string_chars(dollars)

(* {:02}: at least two digits, zero-padded on the left, never truncated. *)
Pad02(n) == IF n < 10 THEN <<"0">> \o to_string_chars(n) ELSE to_string_chars(n)

(* fmt_money as the sequence of the characters of its result. *)
fmt_money_chars(x) ==
    LET formatted == <<"$">> \o dollars_str(Dollars(x)) \o <<".">> \o Pad02(Cents(x))
    IN  IF x < 0 THEN <<"-">> \o formatted ELSE formatted

fmt_money(x) == ConcatAll(fmt_money_chars(x))

---------------------------------------------------------------------------
(* card, cards                                                              *)

AsciiChars == {"A", "a", "K", "k", "T", "t", "h", "H", "d", "D", "2", "9"}

(* Characters of two bytes in UTF-8. *)
WideChars == {"é", "É"}

Chars == AsciiChars \cup WideChars

ByteWidth(ch) == IF ch \in AsciiChars THEN 1 ELSE 2

to_uppercase(ch) ==
    CASE ch = "a" -> "A" [] ch = "k" -> "K" [] ch = "t" -> "T"
      [] ch = "h" -> "H" [] ch = "d" -> "D" [] ch = "é" -> "É"
      [] OTHER -> ch

to_lowercase(ch) ==
    CASE ch = "A" -> "a" [] ch = "K" -> "k" [] ch = "T" -> "t"
      [] ch = "H" -> "h" [] ch = "D" -> "d" [] ch = "É" -> "é"
      [] OTHER -> ch

RECURSIVE ByteLen(_)
(* str::len: the length in bytes. *)
ByteLen(c) == IF c = <<>> THEN 0 ELSE ByteWidth(Head(c)) + ByteLen(Tail(c))

(* c[0..1] and c[1..2] slice by byte offsets and panic when an offset is    *)
(* not a character boundary: offset 1 is one only after a one-byte first    *)
(* character, offset 2 only after a one-byte second character.              *)
cardPanics(c) ==
    /\ ByteLen(c) >= 2
    /\ \/ ByteWidth(c[1]) # 1
       \/ ByteWidth(c[2]) # 1

card(c) ==
    IF ByteLen(c) >= 2
    THEN IF cardPanics(c) THEN <<>> ELSE <<to_uppercase(c[1]), to_lowercase(c[2])>>
    ELSE c

cardStr(c) == ConcatAll(card(c))

cardsPanics(board) == \E k \in 1..Len(board) : cardPanics(board[k])

cards(board) == JoinStr([k \in 1..Len(board) |-> cardStr(board[k])], " ")

---------------------------------------------------------------------------
(* Hand records (OhhHand, Player, Round, Action, Pot, PlayerWin)            *)
(*   hand   : [game_number, small_blind_amount, big_blind_amount, currency, *)
(*             start_date_utc, table_name, table_size, dealer_seat,         *)
(*             hero_player_id, players, rounds, pots]                       *)
(*   player : [id, seat, name, starting_stack]                              *)
(*   round  : [id, street, cards, actions]                                  *)
(*   action : [action_number, player_id, action, amount, is_allin, cards]   *)
(*   pot    : [number, amount, rake, player_wins]                           *)
(*   win    : [player_id, win_amount]                                       *)
(* start_date_utc is the sequence of its pieces, "T" and "." being pieces.  *)

Postings == {"Post SB", "Post BB", "Post Ante"}

(* start_date_utc.split('.').next(): the pieces before the first ".". *)
RECURSIVE BeforeFirstDot(_)
BeforeFirstDot(ts) ==
    IF ts = <<>> \/ Head(ts) = "." THEN <<>>
    ELSE <<Head(ts)>> \o BeforeFirstDot(Tail(ts))

(* .replace('T', " ") *)
ReplaceT(ts) == [k \in 1..Len(ts) |-> IF ts[k] = "T" THEN " " ELSE ts[k]]

build_header(h) ==
    LET sb == fmt_money(h.small_blind_amount)
        bb == fmt_money(h.big_blind_amount)
        cur == unwrap_or(h.currency, "USD")
        ts == ConcatAll(ReplaceT(BeforeFirstDot(h.start_date_utc)))
    IN  "PokerStars Hand #" \o h.game_number \o ": Hold'em No Limit ("
            \o sb \o "/" \o bb \o " " \o cur \o ") - " \o ts \o " UTC"

build_table(h) ==
    "Table '" \o h.table_name \o "' " \o to_string(h.table_size)
        \o "-max Seat #" \o to_string(h.dealer_seat) \o " is the button"

RECURSIVE InsertBySeat(_, _)
(* p placed after every element whose seat is <= p.seat: stable. *)
InsertBySeat(sorted, p) ==
    IF sorted = <<>> THEN <<p>>
    ELSE IF Head(sorted).seat <= p.seat
         THEN <<Head(sorted)>> \o InsertBySeat(Tail(sorted), p)
         ELSE <<p>> \o sorted

RECURSIVE sort_by_seat(_)
(* players.sort_by_key(|p| p.seat): a stable sort. *)
sort_by_seat(ps) ==
    IF ps = <<>> THEN <<>>
    ELSE InsertBySeat(sort_by_seat(SubSeq(ps, 1, Len(ps) - 1)), ps[Len(ps)])

SeatLine(p) ==
    "Seat " \o to_string(p.seat) \o ": " \o p.name
        \o " (" \o fmt_money(p.starting_stack) \o " in chips)"

(* A seats block in the order of the Players list. *)
build_seatsUnsorted(h) ==
    LET players == h.players
    IN  IF players = <<>> THEN <<"">>
        ELSE [k \in 1..Len(players) |-> SeatLine(players[k])]

(* The seats block as a text: no player gives the empty text, one empty line. *)
build_seats(h) ==
    LET players == sort_by_seat(h.players)
    IN  IF players = <<>> THEN <<"">>
        ELSE [k \in 1..Len(players) |-> SeatLine(players[k])]

(* A lookup that falls back to the id itself when no player matches. *)
name_by_idOrId(h, pid) ==
    LET hits == {k \in 1..Len(h.players) : h.players[k].id = pid}
    IN  IF hits = {} THEN pid
        ELSE h.players[CHOOSE k \in hits : \A j \in hits : k <= j].name

(* iter().find(|p| p.id == pid): the first matching player, if any. *)
FindPlayer(h, pid) ==
    LET hits == {k \in 1..Len(h.players) : h.players[k].id = pid}
    IN  IF hits = {} THEN None
        ELSE Some(h.players[CHOOSE k \in hits : \A j \in hits : k <= j])

name_by_id(h, pid) ==
    LET p == FindPlayer(h, pid)
    IN  IF IsSome(p) THEN Unwrap(p).name ELSE "Unknown"

seat_by_id(h, pid) ==
    LET p == FindPlayer(h, pid)
    IN  IF IsSome(p) THEN Unwrap(p).seat ELSE 0

---------------------------------------------------------------------------
(* street_header                                                            *)

street_headerPanics(street, brd, all_board) ==
    CASE street = "Flop" -> cardsPanics(brd)
      [] street = "Turn" ->
            IF Len(all_board) >= 4 THEN cardsPanics(SubSeq(all_board, 1, 4))
            ELSE cardsPanics(brd)
      [] street = "River" ->
            IF Len(all_board) >= 5 THEN cardsPanics(SubSeq(all_board, 1, 5))
            ELSE cardsPanics(brd)
      [] OTHER -> FALSE

street_header(street, brd, all_board) ==
    CASE street = "Preflop" -> "*** HOLE CARDS ***"
      [] street = "Flop" -> "*** FLOP *** [" \o cards(brd) \o "]"
      [] street = "Turn" ->
            IF Len(all_board) >= 4
            THEN "*** TURN *** [" \o cards(SubSeq(all_board, 1, 3)) \o "] ["
                     \o cardStr(all_board[4]) \o "]"
            ELSE "*** TURN *** [" \o cards(brd) \o "]"
      [] street = "River" ->
            IF Len(all_board) >= 5
            THEN "*** RIVER *** [" \o cards(SubSeq(all_board, 1, 4)) \o "] ["
                     \o cardStr(all_board[5]) \o "]"
            ELSE "*** RIVER *** [" \o cards(brd) \o "]"
      [] street = "Showdown" -> "*** SHOW DOWN ***"
      [] OTHER -> ""

---------------------------------------------------------------------------
(* act_line_with_context                                                    *)
(* The tracker (HashMap<u32, (f64, f64, bool)>) is a function from the      *)
(* action numbers it holds to <<prev_bet, total, has_bet>>.                 *)

EmptyTracker == [k \in {} |-> <<0, 0, FALSE>>]

TrackerInsert(tracker, key, entry) ==
    [k \in (DOMAIN tracker) \cup {key} |-> IF k = key THEN entry ELSE tracker[k]]

AllinSuffix(a) == IF unwrap_or(a.is_allin, FALSE) THEN " and is all-in" ELSE ""

(* A formatter that shows the cards of every player, hero or not. *)
should_showAll(h, a) == TRUE

(* hero_id == player_id when a hero is set, true otherwise *)
should_show(h, a) ==
    IF IsSome(h.hero_player_id) THEN Unwrap(h.hero_player_id) = Unwrap(a.player_id)
    ELSE TRUE

(* Whether the first two cards of the action are formatted. *)
TwoCardsShown(a) == IsSome(a.cards) /\ Len(Unwrap(a.cards)) >= 2

act_linePanics(h, a) ==
    /\ IsSome(a.player_id)
    /\ \/ a.action = "Dealt Cards" /\ should_show(h, a)
       \/ a.action = "Shows Cards"
    /\ TwoCardsShown(a)
    /\ cardsPanics(SubSeq(Unwrap(a.cards), 1, 2))

BetsLine(n, amt, allin) == n \o ": bets " \o fmt_money(amt) \o allin

RaisesLine(n, amt, prev_bet, allin) ==
    n \o ": raises " \o fmt_money(amt - prev_bet) \o " to " \o fmt_money(amt) \o allin

TwoCards(a) ==
    "[" \o cardStr(Unwrap(a.cards)[1]) \o " " \o cardStr(Unwrap(a.cards)[2]) \o "]"

(* Lines 413-414: the tracker holds an entry for the action, prev_bet > 0. *)
RaiseHasBaseline(a, tracker) ==
    /\ a.action_number \in DOMAIN tracker
    /\ tracker[a.action_number][1] > 0

(* A Bet arm that reads prev_bet alone, as the Raise arm does. *)
BetHasBaselineNoFlag(a, tracker) ==
    /\ a.action_number \in DOMAIN tracker
    /\ tracker[a.action_number][1] > 0

(* Lines 398-399: as for a Raise, and has_bet is set in the entry. *)
BetHasBaseline(a, tracker) ==
    /\ a.action_number \in DOMAIN tracker
    /\ tracker[a.action_number][3]
    /\ tracker[a.action_number][1] > 0

(* The Option<String> the call returns when it does not panic. *)
act_line_with_context(h, a, tracker) ==
    IF ~IsSome(a.player_id) THEN None
    ELSE
    LET n == name_by_id(h, Unwrap(a.player_id))
        act == a.action
        amt == unwrap_or(a.amount, 0)
        allin == AllinSuffix(a)
    IN  CASE act = "Post SB" -> Some(n \o ": posts small blind " \o fmt_money(amt))
          [] act = "Post BB" -> Some(n \o ": posts big blind " \o fmt_money(amt))
          [] act = "Post Ante" -> Some(n \o ": posts the ante " \o fmt_money(amt))
          [] act = "Dealt Cards" ->
                IF should_show(h, a) /\ TwoCardsShown(a)
                THEN Some("Dealt to " \o n \o " " \o TwoCards(a))
                ELSE None
          [] act = "Fold" -> Some(n \o ": folds")
          [] act = "Check" -> Some(n \o ": checks")
          [] act = "Call" -> Some(n \o ": calls " \o fmt_money(amt) \o allin)
          [] act = "Bet" ->
                IF BetHasBaseline(a, tracker)
                THEN Some(RaisesLine(n, amt, tracker[a.action_number][1], allin))
                ELSE Some(BetsLine(n, amt, allin))
          [] act = "Raise" ->
                IF RaiseHasBaseline(a, tracker)
                THEN Some(RaisesLine(n, amt, tracker[a.action_number][1], allin))
                ELSE Some(BetsLine(n, amt, allin))
          [] act = "Shows Cards" ->
                IF TwoCardsShown(a)
                THEN Some(n \o ": shows " \o TwoCards(a))
                ELSE Some(n \o ": shows")
          [] act = "Muck" -> Some(n \o ": mucks hand")
          [] OTHER -> None

---------------------------------------------------------------------------
(* ohh_to_pokerstars_text: the loop over the actions of one round           *)
(* A scan state holds the locals of lines 494-508:                          *)
(*   [tracker, last_bet_amount, has_bet_this_street,                        *)
(*    blind_lines, dealt_lines, other_lines, panic]                         *)

(* The locals at the start of a round; the tracker is the one declared      *)
(* before the loop over the rounds (line 494).                              *)
ScanInit(tracker) ==
    [tracker |-> tracker, last_bet_amount |-> 0, has_bet_this_street |-> FALSE,
     blind_lines |-> <<>>, dealt_lines |-> <<>>, other_lines |-> <<>>,
     panic |-> FALSE]

(* A bookkeeping in which a Call sets last_bet_amount as a posting does. *)
TrackAmountCalls(st, action) ==
    IF ~IsSome(action.amount) THEN st
    ELSE LET amt == Unwrap(action.amount)
         IN  CASE action.action \in Postings \cup {"Call"} ->
                    [st EXCEPT !.last_bet_amount = amt]
               [] action.action \in {"Bet", "Raise"} ->
                    [st EXCEPT !.last_bet_amount = amt,
                               !.tracker = TrackerInsert(st.tracker, action.action_number,
                                               <<st.last_bet_amount, amt, st.has_bet_this_street>>),
                               !.has_bet_this_street = TRUE]
               [] OTHER -> st

(* A bookkeeping in which a posting never lowers last_bet_amount. *)
TrackAmountMax(st, action) ==
    IF ~IsSome(action.amount) THEN st
    ELSE LET amt == Unwrap(action.amount)
         IN  CASE action.action \in Postings ->
                    [st EXCEPT !.last_bet_amount = IF amt > @ THEN amt ELSE @]
               [] action.action \in {"Bet", "Raise"} ->
                    [st EXCEPT !.last_bet_amount = amt,
                               !.tracker = TrackerInsert(st.tracker, action.action_number,
                                               <<st.last_bet_amount, amt, st.has_bet_this_street>>),
                               !.has_bet_this_street = TRUE]
               [] OTHER -> st

(* A bookkeeping in which a posting leaves last_bet_amount alone. *)
TrackAmountNoPostings(st, action) ==
    IF ~IsSome(action.amount) \/ action.action \notin {"Bet", "Raise"} THEN st
    ELSE LET amt == Unwrap(action.amount)
         IN  [st EXCEPT !.last_bet_amount = amt,
                        !.tracker = TrackerInsert(st.tracker, action.action_number,
                                        <<st.last_bet_amount, amt, st.has_bet_this_street>>),
                        !.has_bet_this_street = TRUE]

(* Lines 511-526: the bookkeeping of an action that carries an amount. *)
TrackAmount(st, action) ==
    IF ~IsSome(action.amount) THEN st
    ELSE LET amt == Unwrap(action.amount)
         IN  CASE action.action \in Postings ->
                    [st EXCEPT !.last_bet_amount = amt]
               [] action.action \in {"Bet", "Raise"} ->
                    [st EXCEPT !.last_bet_amount = amt,
                               !.tracker = TrackerInsert(st.tracker, action.action_number,
                                               <<st.last_bet_amount, amt, st.has_bet_this_street>>),
                               !.has_bet_this_street = TRUE]
               [] OTHER -> st

(* A loop that puts the line of an action ahead of the lines of its group. *)
PushLineFront(h, st, action) ==
    IF act_linePanics(h, action) THEN [st EXCEPT !.panic = TRUE]
    ELSE LET line == act_line_with_context(h, action, st.tracker)
         IN  IF ~IsSome(line) THEN st
             ELSE CASE action.action \in Postings ->
                        [st EXCEPT !.blind_lines = <<Unwrap(line)>> \o @]
                    [] action.action = "Dealt Cards" ->
                        [st EXCEPT !.dealt_lines = <<Unwrap(line)>> \o @]
                    [] OTHER ->
                        [st EXCEPT !.other_lines = <<Unwrap(line)>> \o @]

(* A loop that pushes an empty line for an action without a line. *)
PushLineBlank(h, st, action) ==
    IF act_linePanics(h, action) THEN [st EXCEPT !.panic = TRUE]
    ELSE LET line == act_line_with_context(h, action, st.tracker)
             text == IF IsSome(line) THEN Unwrap(line) ELSE ""
         IN  CASE action.action \in Postings ->
                    [st EXCEPT !.blind_lines = Append(@, text)]
               [] action.action = "Dealt Cards" ->
                    [st EXCEPT !.dealt_lines = Append(@, text)]
               [] OTHER ->
                    [st EXCEPT !.other_lines = Append(@, text)]

(* Lines 528-534: the line of the action, pushed to its group. *)
PushLine(h, st, action) ==
    IF act_linePanics(h, action) THEN [st EXCEPT !.panic = TRUE]
    ELSE LET line == act_line_with_context(h, action, st.tracker)
         IN  IF ~IsSome(line) THEN st
             ELSE CASE action.action \in Postings ->
                        [st EXCEPT !.blind_lines = Append(@, Unwrap(line))]
                    [] action.action = "Dealt Cards" ->
                        [st EXCEPT !.dealt_lines = Append(@, Unwrap(line))]
                    [] OTHER ->
                        [st EXCEPT !.other_lines = Append(@, Unwrap(line))]

(* An iteration that passes over an action without an actor, amount and all. *)
ScanStepActorOnly(h, st, action) ==
    IF st.panic \/ ~IsSome(action.player_id) THEN st
    ELSE PushLine(h, TrackAmount(st, action), action)

(* One iteration of the loop of lines 510-535; a panic ends the call. *)
ScanStep(h, st, action) ==
    IF st.panic THEN st ELSE PushLine(h, TrackAmount(st, action), action)

RECURSIVE ScanActions(_, _, _, _)
(* The scan state after the first k actions. *)
ScanActions(h, st, actions, k) ==
    IF k = 0 THEN st
    ELSE LET before == ScanActions(h, st, actions, k - 1)
         IN  ScanStep(h, before, actions[k])

---------------------------------------------------------------------------
(* ohh_to_pokerstars_text: the loop over the rounds                         *)
(* A render state holds [lines, all_board, tracker, panic].                 *)

(* An emission without the tests of lines 543 and 556: the header is       *)
(* pushed even when it is empty.                                            *)
RoundLinesAlwaysHeader(round, all_board, scan) ==
    LET head == <<street_header(round.street, round.cards, all_board)>>
    IN  IF round.street = "Preflop"
        THEN scan.blind_lines \o head \o scan.dealt_lines \o scan.other_lines
        ELSE head \o scan.blind_lines \o scan.dealt_lines \o scan.other_lines

(* An emission without the Preflop branch: the header always comes first. *)
RoundLinesHeaderFirst(round, all_board, scan) ==
    LET header == street_header(round.street, round.cards, all_board)
        head == IF header # "" THEN <<header>> ELSE <<>>
    IN  head \o scan.blind_lines \o scan.dealt_lines \o scan.other_lines

(* Lines 537-569: the lines one round adds, header included. *)
RoundLines(round, all_board, scan) ==
    LET header == street_header(round.street, round.cards, all_board)
        head == IF header # "" THEN <<header>> ELSE <<>>
    IN  IF round.street = "Preflop"
        THEN scan.blind_lines \o head \o scan.dealt_lines \o scan.other_lines
        ELSE head \o scan.blind_lines \o scan.dealt_lines \o scan.other_lines

(* One iteration of the loop of lines 496-570. *)
RoundStep(h, rs, round) ==
    IF rs.panic THEN rs
    ELSE LET all_board == rs.all_board \o round.cards
             scan == ScanActions(h, ScanInit(rs.tracker), round.actions, Len(round.actions))
         IN  IF scan.panic \/ street_headerPanics(round.street, round.cards, all_board)
             THEN [rs EXCEPT !.panic = TRUE]
             ELSE [lines |-> rs.lines \o RoundLines(round, all_board, scan),
                   all_board |-> all_board,
                   tracker |-> scan.tracker,
                   panic |-> FALSE]

(* Lines 487-494: header, table and seats pushed, nothing tracked yet. *)
RenderInit(h) ==
    [lines |-> <<build_header(h), build_table(h)>> \o build_seats(h),
     all_board |-> <<>>,
     tracker |-> EmptyTracker,
     panic |-> FALSE]

RECURSIVE InsertById(_, _)
InsertById(sorted, round) ==
    IF sorted = <<>> THEN <<round>>
    ELSE IF Head(sorted).id <= round.id
         THEN <<Head(sorted)>> \o InsertById(Tail(sorted), round)
         ELSE <<round>> \o sorted

RECURSIVE SortById(_)
SortById(rounds) ==
    IF rounds = <<>> THEN <<>>
    ELSE InsertById(SortById(SubSeq(rounds, 1, Len(rounds) - 1)), rounds[Len(rounds)])

RECURSIVE RenderRoundsById(_, _)
(* A loop over the rounds sorted by their id, not in the order given. *)
RenderRoundsById(h, k) ==
    IF k = 0 THEN RenderInit(h)
    ELSE LET before == RenderRoundsById(h, k - 1)
         IN  RoundStep(h, before, SortById(h.rounds)[k])

RECURSIVE RenderRounds(_, _)
(* The render state after the first k rounds. *)
RenderRounds(h, k) ==
    IF k = 0 THEN RenderInit(h)
    ELSE LET before == RenderRounds(h, k - 1)
         IN  RoundStep(h, before, h.rounds[k])

---------------------------------------------------------------------------
(* summarize                                                                *)

IsBoardStreet(street) == street \in {"Flop", "Turn", "River"}

(* Lines 454-459: the cards of the Flop, Turn and River rounds, in order. *)
SummaryBoard(h) ==
    Flatten([k \in 1..Len(h.rounds) |->
        IF IsBoardStreet(h.rounds[k].street) THEN h.rounds[k].cards ELSE <<>>])

summarizePanics(h) == h.pots # <<>> /\ cardsPanics(SummaryBoard(h))

CollectedLine(h, w) ==
    "Seat " \o to_string(seat_by_id(h, w.player_id)) \o ": "
        \o name_by_id(h, w.player_id) \o " collected (" \o fmt_money(w.win_amount) \o ")"

(* A summary that reads the last pot of the hand. *)
SummaryPotLast(h) == h.pots[Len(h.pots)]

(* Line 450: let pot = &h.pots[0] *)
SummaryPot(h) == h.pots[1]

(* A summary without the early return of lines 446-448: with no pot it     *)
(* still adds the Board line.                                               *)
summarizeNoEarlyReturn(h) ==
    LET board == SummaryBoard(h)
        pot == IF h.pots = <<>> THEN [amount |-> 0, rake |-> 0, player_wins |-> <<>>]
               ELSE SummaryPot(h)
    IN  <<"*** SUMMARY ***",
          "Total pot " \o fmt_money(pot.amount) \o " | Rake " \o fmt_money(pot.rake)>>
        \o (IF board # <<>> THEN <<"Board [" \o cards(board) \o "]">> ELSE <<>>)
        \o [k \in 1..Len(pot.player_wins) |-> CollectedLine(h, pot.player_wins[k])]

(* The summary as a text (its lines). *)
summarize(h) ==
    IF h.pots = <<>> THEN <<"*** SUMMARY ***", "Total pot $0.00 | Rake $0.00">>
    ELSE LET pot == SummaryPot(h)
             board == SummaryBoard(h)
         IN  <<"*** SUMMARY ***",
               "Total pot " \o fmt_money(pot.amount) \o " | Rake " \o fmt_money(pot.rake)>>
             \o (IF board # <<>> THEN <<"Board [" \o cards(board) \o "]">> ELSE <<>>)
             \o [k \in 1..Len(pot.player_wins) |-> CollectedLine(h, pot.player_wins[k])]

---------------------------------------------------------------------------
(* ohh_to_pokerstars_text                                                   *)

ohh_to_pokerstars_textPanics(h) ==
    RenderRounds(h, Len(h.rounds)).panic \/ summarizePanics(h)

(* The rendered text (its lines) of a call that returns. *)
ohh_to_pokerstars_text(h) ==
    RenderRounds(h, Len(h.rounds)).lines \o summarize(h)

(* The outcome of a call of render: panicked, or the text. *)
Rendered(h) ==
    IF ohh_to_pokerstars_textPanics(h) THEN [panic |-> TRUE, text |-> <<>>]
    ELSE [panic |-> FALSE, text |-> ohh_to_pokerstars_text(h)]

---------------------------------------------------------------------------
(* parse_ohh_chunks                                                         *)
(* The input text is a sequence of pieces:                                  *)
(*   [t |-> "nl"]                          one "\n"                         *)
(*   [t |-> "junk"]                        text that is no JSON             *)
(*   [t |-> "json", ohh |-> o, top |-> p]  one JSON object: o is Some(hand) *)
(*       when its "ohh" member holds the members of a hand, p is Some(hand) *)
(*       when the object itself holds them.                                 *)
(* The hands of a JSON object are raw: a player id is <<"int", n>> or       *)
(* <<"str", s>>, as written in the source.                                  *)

NL == [t |-> "nl"]

Junk == [t |-> "junk"]

Json(ohh, top) == [t |-> "json", ohh |-> ohh, top |-> top]

(* A decoder that keeps integers apart from strings of the same digits. *)
deserialize_player_idTagged(v) ==
    IF v[1] = "int"
    THEN "#" \o (IF v[2] < 0 THEN "-" ELSE "") \o to_string(Abs(v[2]))
    ELSE v[2]

(* visit_i64 / visit_u64: value.to_string(); visit_str: the string. *)
deserialize_player_id(v) ==
    IF v[1] = "int"
    THEN (IF v[2] < 0 THEN "-" ELSE "") \o to_string(Abs(v[2]))
    ELSE v[2]

deserialize_optional_player_id(o) ==
    IF IsSome(o) THEN Some(deserialize_player_id(Unwrap(o))) ELSE None

DecodeAction(a) == [a EXCEPT !.player_id = deserialize_optional_player_id(@)]

DecodeRound(r) ==
    [r EXCEPT !.actions = [k \in 1..Len(r.actions) |-> DecodeAction(r.actions[k])]]

DecodePot(p) ==
    [p EXCEPT !.player_wins = [k \in 1..Len(p.player_wins) |->
        [p.player_wins[k] EXCEPT !.player_id = deserialize_player_id(@)]]]

(* The OhhHand serde builds from the members of a raw hand. *)
DecodeHand(raw) ==
    [raw EXCEPT
        !.hero_player_id = deserialize_optional_player_id(@),
        !.players = [k \in 1..Len(raw.players) |->
                        [raw.players[k] EXCEPT !.id = deserialize_player_id(@)]],
        !.rounds = [k \in 1..Len(raw.rounds) |-> DecodeRound(raw.rounds[k])],
        !.pots = [k \in 1..Len(raw.pots) |-> DecodePot(raw.pots[k])]]

(* The index of the first "\n\n" of the text, 0 when there is none. *)
FirstBlankLine(text) ==
    LET hits == {k \in 1..(Len(text) - 1) : text[k].t = "nl" /\ text[k + 1].t = "nl"}
    IN  IF hits = {} THEN 0 ELSE CHOOSE k \in hits : \A j \in hits : k <= j

RECURSIVE split(_)
(* text.split("\n\n"): the pieces between non-overlapping matches, found    *)
(* from the left; always at least one chunk.                                *)
split(text) ==
    LET k == FirstBlankLine(text)
    IN  IF k = 0 THEN <<text>>
        ELSE <<SubSeq(text, 1, k - 1)>> \o split(SubSeq(text, k + 2, Len(text)))

RECURSIVE TrimStart(_)
TrimStart(chunk) ==
    IF chunk # <<>> /\ Head(chunk).t = "nl" THEN TrimStart(Tail(chunk)) ELSE chunk

RECURSIVE TrimEnd(_)
TrimEnd(chunk) ==
    IF chunk # <<>> /\ chunk[Len(chunk)].t = "nl"
    THEN TrimEnd(SubSeq(chunk, 1, Len(chunk) - 1))
    ELSE chunk

(* serde_json::from_str reads one JSON value, white space allowed around    *)
(* it: Some(object) when the chunk is that, None on any syntax error.       *)
JsonValue(chunk) ==
    LET body == TrimEnd(TrimStart(chunk))
    IN  IF Len(body) = 1 /\ body[1].t = "json" THEN Some(body[1]) ELSE None

(* serde_json::from_str::<OhhFile>(chunk) *)
from_str_OhhFile(chunk) ==
    LET v == JsonValue(chunk)
    IN  IF IsSome(v) /\ IsSome(Unwrap(v).ohh)
        THEN Some([ohh |-> DecodeHand(Unwrap(Unwrap(v).ohh))])
        ELSE None

(* serde_json::from_str::<OhhHand>(chunk) *)
from_str_OhhHand(chunk) ==
    LET v == JsonValue(chunk)
    IN  IF IsSome(v) /\ IsSome(Unwrap(v).top)
        THEN Some(DecodeHand(Unwrap(Unwrap(v).top)))
        ELSE None

(* The hands of a decoded container (line 204): OhhFile holds one, ohh. *)
FileHands(data) == <<data.ohh>>

(* Lines 201-218: the hands one chunk adds. *)
ChunkHands(chunk) ==
    IF IsSome(from_str_OhhFile(chunk)) THEN FileHands(Unwrap(from_str_OhhFile(chunk)))
    ELSE IF IsSome(from_str_OhhHand(chunk)) THEN <<Unwrap(from_str_OhhHand(chunk))>>
    ELSE <<>>

(* A parser that gives up at the first chunk it cannot decode. *)
ParseLoopAbort(chunks, k) ==
    LET bad == {j \in 1..k : ChunkHands(chunks[j]) = <<>>}
        upto == IF bad = {} THEN k ELSE (CHOOSE j \in bad : \A i \in bad : j <= i) - 1
    IN  Flatten([j \in 1..upto |-> ChunkHands(chunks[j])])

RECURSIVE ParseLoop(_, _)
(* The loop of lines 198-219: hands after the first k chunks. *)
ParseLoop(chunks, k) ==
    IF k = 0 THEN <<>>
    ELSE ParseLoop(chunks, k - 1) \o ChunkHands(chunks[k])

Ok(v) == [ok |-> TRUE, val |-> v, err |-> ""]

Err(e) == [ok |-> FALSE, val |-> <<>>, err |-> e]

(* A parser that returns Ok even when no hand was decoded. *)
ParseResultAlwaysOk(hands) == Ok(hands)

(* Lines 221-225 *)
ParseResult(hands) ==
    IF hands = <<>>
    THEN Err("no valid hands could be parsed. please check your file format.")
    ELSE Ok(hands)

parse_ohh_chunks(text) ==
    LET chunks == split(text)
    IN  ParseResult(ParseLoop(chunks, Len(chunks)))

---------------------------------------------------------------------------
(* convert_ohh_file                                                         *)

(* A separator of two line breaks: one empty line. *)
SeparatorShort == <<"">>

(* "\n\n\n\n" between two texts: three empty lines. *)
Separator == <<"", "", "">>

RECURSIVE JoinBlocks(_)
(* converted_hands.join("\n\n\n\n") *)
JoinBlocks(blocks) ==
    IF blocks = <<>> THEN <<"">>
    ELSE IF Len(blocks) = 1 THEN blocks[1]
    ELSE blocks[1] \o Separator \o JoinBlocks(Tail(blocks))

RECURSIVE RenderRoundsFrom(_, _, _)
(* The render state after the first k rounds, from a given state. *)
RenderRoundsFrom(h, init, k) ==
    IF k = 0 THEN init
    ELSE LET before == RenderRoundsFrom(h, init, k - 1)
         IN  RoundStep(h, before, h.rounds[k])

RECURSIVE CarriedAfter(_, _)
(* The board and the tracker left by the first k hands when a hand starts   *)
(* from those the hand before it left.                                      *)
CarriedAfter(hands, k) ==
    IF k = 0 THEN [all_board |-> <<>>, tracker |-> EmptyTracker]
    ELSE LET c == CarriedAfter(hands, k - 1)
             h == hands[k]
             end == RenderRoundsFrom(h, [RenderInit(h) EXCEPT !.all_board = c.all_board,
                                                            !.tracker = c.tracker],
                                     Len(h.rounds))
         IN  [all_board |-> end.all_board, tracker |-> end.tracker]

(* A map in which the board and the tracker outlive the hand. *)
converted_handsShared(hands) ==
    [k \in 1..Len(hands) |->
        LET c == CarriedAfter(hands, k - 1)
            h == hands[k]
        IN  RenderRoundsFrom(h, [RenderInit(h) EXCEPT !.all_board = c.all_board,
                                                     !.tracker = c.tracker],
                             Len(h.rounds)).lines \o summarize(h)]

(* hands.iter().map(ohh_to_pokerstars_text).collect(): each call builds its *)
(* own lines, board and tracker (lines 487-494).                            *)
converted_hands(hands) ==
    [k \in 1..Len(hands) |-> ohh_to_pokerstars_text(hands[k])]

convert_ohh_filePanics(content) ==
    LET r == parse_ohh_chunks(content)
    IN  r.ok /\ \E k \in 1..Len(r.val) : ohh_to_pokerstars_textPanics(r.val[k])

(* The Result<String, String> of a call that returns, the String a text. *)
convert_ohh_file(content) ==
    LET r == parse_ohh_chunks(content)
    IN  IF ~r.ok THEN Err(r.err)
        ELSE IF r.val = <<>> THEN Err("No valid hands found in file")
        ELSE Ok(JoinBlocks(converted_hands(r.val)))

Converted(content) ==
    IF convert_ohh_filePanics(content) THEN [panic |-> TRUE, res |-> Err("")]
    ELSE [panic |-> FALSE, res |-> convert_ohh_file(content)]

---------------------------------------------------------------------------
(* Inputs                                                                   *)

MaxActions == 3

MaxSecondRound == 2

MaxDeals == 2

MaxWins == 2

MaxChunks == 3

MaxCardLen == 3

MaxOrderActions == 3

MaxRounds == 4

MaxPlayers == 3

MaxSkipActions == 3

MaxHands == 3

MaxScanActions == 3

SeqsUpTo(S, n) == UNION {[1..m -> S] : m \in 0..n}

Alice == [id |-> "1", seat |-> 2, name |-> "Alice", starting_stack |-> 10000]

Bob == [id |-> "2", seat |-> 1, name |-> "Bob", starting_stack |-> 9800]

BaseHand ==
    [game_number |-> "g1", small_blind_amount |-> 50, big_blind_amount |-> 100,
     currency |-> None,
     start_date_utc |-> <<"2023-12-05", "T", "02:50:49", ".", "886Z">>,
     table_name |-> "T1", table_size |-> 6, dealer_seat |-> 3,
     hero_player_id |-> None,
     players |-> <<Alice, Bob>>, rounds |-> <<>>, pots |-> <<>>]

(* An action but for its action_number, which Numbered sets to its position. *)
Tpl(pid, kind, amount, allin, cs) ==
    [player_id |-> pid, action |-> kind, amount |-> amount, is_allin |-> allin, cards |-> cs]

Numbered(tpls) ==
    [k \in 1..Len(tpls) |->
        [action_number |-> k - 1, player_id |-> tpls[k].player_id,
         action |-> tpls[k].action, amount |-> tpls[k].amount,
         is_allin |-> tpls[k].is_allin, cards |-> tpls[k].cards]]

Round(id, street, cs, tpls) ==
    [id |-> id, street |-> street, cards |-> cs, actions |-> Numbered(tpls)]

FlopCards == <<(<<"A", "h">>), (<<"k", "d">>), (<<"2", "d">>)>>

TurnCards == <<(<<"T", "h">>)>>

(* Betting rounds: postings, bets, raises and calls with and without an     *)
(* amount, an all-in flag, an absent and an unresolvable actor.             *)
BetTemplates ==
    {Tpl(Some("1"), "Post BB", Some(100), None, None),
     Tpl(Some("1"), "Post BB", None, None, None),
     Tpl(Some("2"), "Post SB", Some(50), None, None),
     Tpl(Some("1"), "Bet", Some(100), None, None),
     Tpl(Some("2"), "Bet", Some(300), Some(TRUE), None),
     Tpl(Some("1"), "Bet", None, None, None),
     Tpl(Some("2"), "Bet", Some(0), Some(FALSE), None),
     Tpl(Some("1"), "Raise", Some(300), None, None),
     Tpl(Some("2"), "Raise", Some(100), Some(TRUE), None),
     Tpl(Some("1"), "Raise", None, None, None),
     Tpl(Some("1"), "Call", Some(300), None, None),
     Tpl(None, "Raise", Some(300), None, None),
     Tpl(Some("9"), "Bet", Some(100), None, None)}

FirstRoundTemplates ==
    {Tpl(Some("1"), "Bet", Some(100), None, None),
     Tpl(Some("1"), "Raise", Some(300), None, None),
     Tpl(Some("2"), "Post BB", Some(100), None, None),
     Tpl(Some("1"), "Check", None, None, None)}

SecondRoundTemplates ==
    {Tpl(Some("2"), k, a, None, None) : k \in {"Bet", "Raise"}, a \in {None, Some(300)}}
    \cup {Tpl(Some("1"), "Bet", Some(100), Some(TRUE), None),
          Tpl(Some("1"), "Call", Some(300), None, None),
          Tpl(Some("2"), "Post Ante", Some(50), None, None),
          Tpl(Some("1"), "Check", None, None, None)}

OneRoundHand(tpls) ==
    [BaseHand EXCEPT !.rounds = <<Round(0, "Preflop", <<>>, tpls)>>]

TwoRoundHand(t1, t2) ==
    [BaseHand EXCEPT !.rounds =
        <<Round(0, "Preflop", <<>>, t1), Round(1, "Flop", FlopCards, t2)>>]

(* The hand of test_raise_formatting (lines 661-676). *)
RaiseFixture ==
    [BaseHand EXCEPT !.game_number = "raise_test", !.currency = Some("USD"),
        !.rounds = <<
            Round(0, "Preflop", <<>>, <<
                Tpl(Some("1"), "Post SB", Some(50), None, None),
                Tpl(Some("2"), "Post BB", Some(100), None, None),
                Tpl(Some("1"), "Raise", Some(300), None, None),
                Tpl(Some("2"), "Call", Some(300), None, None)>>),
            Round(1, "Flop", FlopCards, <<
                Tpl(Some("1"), "Check", None, None, None),
                Tpl(Some("2"), "Bet", Some(500), None, None),
                Tpl(Some("1"), "Raise", Some(1500), None, None)>>)>>,
        !.pots = <<[number |-> 0, amount |-> 3600, rake |-> 0,
                    player_wins |-> <<[player_id |-> "1", win_amount |-> 3600]>>]>>]

(* Deals: Dealt Cards with every actor and card count, among other actions,  *)
(* with no hero, a hero of the hand and a hero that is no player.            *)
DealCardLists ==
    {None, Some(<<>>), Some(<<(<<"A", "h">>)>>),
     Some(<<(<<"A", "h">>), (<<"k", "d">>)>>),
     Some(<<(<<"t", "H">>), (<<"9", "d">>), (<<"2", "h">>)>>)}

DealTemplates ==
    {Tpl(pid, "Dealt Cards", None, None, cs) :
        pid \in {None, Some("1"), Some("2")}, cs \in DealCardLists}
    \cup {Tpl(Some("2"), "Post BB", Some(100), None, None),
          Tpl(Some("1"), "Fold", None, None, None),
          Tpl(Some("2"), "Shows Cards", None, None, Some(<<(<<"A", "h">>), (<<"k", "d">>)>>))}

DealHeroes == {None, Some("1"), Some("9")}

DealHand(hero, tpls) ==
    [BaseHand EXCEPT !.hero_player_id = hero,
                     !.rounds = <<Round(0, "Preflop", <<>>, tpls)>>]

(* Summaries: no pot, one pot, several pots; winners resolved or not. *)
Wins ==
    {[player_id |-> pid, win_amount |-> w] : pid \in {"1", "2", "9"}, w \in {3970, 100}}

FirstPot(a, r, ws) == [number |-> 0, amount |-> a, rake |-> r, player_wins |-> ws]

LaterPots ==
    {[number |-> 1, amount |-> 500, rake |-> 10,
      player_wins |-> <<[player_id |-> "2", win_amount |-> 500]>>],
     [number |-> 1, amount |-> 100, rake |-> 0, player_wins |-> <<>>]}

(* No pot, the first pot alone, the first pot and a later one. *)
PotLists(p) == {<<>>, <<p>>} \cup {<<p, q>> : q \in LaterPots}

RoundLists ==
    {<<>>,
     <<Round(1, "Flop", FlopCards, <<>>)>>,
     <<Round(0, "Preflop", <<>>, <<Tpl(Some("1"), "Fold", None, None, None)>>),
       Round(1, "Flop", FlopCards, <<>>),
       Round(2, "Turn", TurnCards, <<Tpl(Some("2"), "Check", None, None, None)>>)>>,
     <<Round(4, "Showdown", TurnCards, <<Tpl(Some("2"), "Muck", None, None, None)>>)>>,
     <<Round(0, "Preflop", <<>>, <<Tpl(Some("9"), "Fold", None, None, None),
                                  Tpl(Some("1"), "Check", None, None, None)>>)>>}

SummaryHand(rs, ps) == [BaseHand EXCEPT !.rounds = rs, !.pots = ps]

(* Interleavings: postings, deals and other actions in any order, with an  *)
(* action without an actor and one of an unknown kind, on streets with     *)
(* and without a header.                                                    *)
OrderTemplates ==
    {Tpl(Some("2"), "Post BB", Some(100), None, None),
     Tpl(Some("1"), "Post Ante", Some(50), None, None),
     Tpl(Some("1"), "Dealt Cards", None, None, Some(<<(<<"A", "h">>), (<<"k", "d">>)>>)),
     Tpl(Some("2"), "Dealt Cards", None, None, Some(<<(<<"t", "H">>), (<<"9", "d">>)>>)),
     Tpl(Some("1"), "Fold", None, None, None),
     Tpl(Some("2"), "Bet", Some(100), None, None),
     Tpl(None, "Check", None, None, None),
     Tpl(Some("1"), "Sit Out", None, None, None)}

OrderStreets == {"Preflop", "Flop", "Showdown", "Blinds", "preflop"}

OrderHand(street, tpls) ==
    [BaseHand EXCEPT !.rounds =
        <<Round(0, street, IF street = "Flop" THEN FlopCards ELSE <<>>, tpls)>>]

(* Round lists: rounds of every street in any order and number, the ids    *)
(* following the streets and not the positions.                             *)
RiverCards == <<(<<"9", "d">>)>>

StreetRounds ==
    {Round(0, "Preflop", <<>>, <<
        Tpl(Some("1"), "Dealt Cards", None, None, Some(<<(<<"A", "h">>), (<<"k", "d">>)>>)),
        Tpl(Some("2"), "Post BB", Some(100), None, None)>>),
     Round(1, "Flop", FlopCards, <<Tpl(Some("1"), "Check", None, None, None)>>),
     Round(2, "Turn", TurnCards, <<Tpl(Some("2"), "Fold", None, None, None)>>),
     Round(3, "River", RiverCards, <<
        Tpl(Some("2"), "Shows Cards", None, None, Some(<<(<<"t", "H">>), (<<"9", "d">>)>>))>>),
     Round(4, "Showdown", <<>>, <<Tpl(Some("1"), "Muck", None, None, None)>>)}

RoundsHand(rs) ==
    SummaryHand(rs, <<FirstPot(3970, 0, <<[player_id |-> "1", win_amount |-> 3970]>>)>>)

(* Actions without a line among actions with one: kinds outside the known   *)
(* ones, with and without an amount, deals and shows without an actor.      *)
SkipTemplates ==
    {Tpl(Some("1"), "Sit Out", Some(500), None, None),
     Tpl(Some("2"), "fold", None, None, None),
     Tpl(None, "Dealt Cards", None, None, Some(<<(<<"A", "h">>), (<<"k", "d">>)>>)),
     Tpl(None, "Shows Cards", None, None, Some(<<(<<"t", "H">>), (<<"9", "d">>)>>)),
     Tpl(Some("1"), "Fold", None, None, None),
     Tpl(Some("2"), "Post BB", Some(100), None, None),
     Tpl(Some("1"), "Raise", Some(300), None, None),
     Tpl(Some("1"), "Dealt Cards", None, None, Some(<<(<<"A", "h">>), (<<"k", "d">>)>>))}

SkipHand(street, tpls) == [BaseHand EXCEPT !.rounds = <<Round(0, street, <<>>, tpls)>>]

(* The actions of a street scanned one by one: postings, bets and raises    *)
(* with and without an amount and an actor, a posting smaller than the one  *)
(* before it, and actions of other kinds, some with an amount.              *)
ScanTemplates ==
    {Tpl(Some("1"), "Post SB", Some(50), None, None),
     Tpl(Some("2"), "Post BB", Some(100), None, None),
     Tpl(None, "Post Ante", Some(20), None, None),
     Tpl(Some("2"), "Post BB", None, None, None),
     Tpl(Some("1"), "Bet", Some(300), None, None),
     Tpl(None, "Bet", Some(200), None, None),
     Tpl(Some("2"), "Raise", Some(600), None, None),
     Tpl(None, "Raise", Some(400), None, None),
     Tpl(Some("1"), "Raise", None, None, None),
     Tpl(Some("2"), "Call", Some(300), None, None),
     Tpl(Some("1"), "Sit Out", Some(500), None, None),
     Tpl(None, "Fold", None, None, None),
     Tpl(Some("1"), "Check", Some(700), None, None),
     Tpl(Some("1"), "Dealt Cards", Some(700), None, Some(<<(<<"A", "h">>), (<<"k", "d">>)>>)),
     Tpl(Some("2"), "Shows Cards", Some(700), None, Some(<<(<<"t", "H">>), (<<"9", "d">>)>>)),
     Tpl(Some("2"), "Muck", Some(700), None, None)}

ScanHand(tpls) == [BaseHand EXCEPT !.rounds = <<Round(0, "Preflop", <<>>, tpls)>>]

(* Player lists in any order: equal seats, a two-digit seat, one id twice,  *)
(* one player twice, no player; a fold by and a pot for the id "1".         *)
Carol == [id |-> "1", seat |-> 1, name |-> "Carol", starting_stack |-> 500]

Dave == [id |-> "3", seat |-> 10, name |-> "Dave", starting_stack |-> 1234560]

SeatPlayers == {Alice, Bob, Carol, Dave}

SeatRounds ==
    {<<>>, <<Round(0, "Preflop", <<>>, <<Tpl(Some("1"), "Fold", None, None, None)>>)>>}

SeatPots == {<<>>, <<FirstPot(3970, 0, <<[player_id |-> "1", win_amount |-> 3970]>>)>>}

SeatsHand(ps, rs, pots) == [BaseHand EXCEPT !.players = ps, !.rounds = rs, !.pots = pots]

(* Hands with arbitrary card strings: any characters, any length up to 2,   *)
(* with empty player, round and pot lists, unresolvable ids, no amounts.    *)
AnyCards == SeqsUpTo({"a", "K", "é"}, 2)

AnyCardRounds(c1, c2) ==
    {<<>>} \cup
    {<<Round(0, street, <<c1>>, <<
          Tpl(Some(pid), kind, None, None, Some(<<c1, c2>>)),
          Tpl(Some(pid), "Bet", None, None, None)>>)>> :
        street \in {"Preflop", "Flop"}, pid \in {"1", "9"},
        kind \in {"Dealt Cards", "Shows Cards"}}

AnyCardPots ==
    {<<>>, <<[number |-> 0, amount |-> 100, rake |-> 0,
              player_wins |-> <<[player_id |-> "9", win_amount |-> 100]>>]>>}

AnyCardHand(ps, rs, pots) ==
    [BaseHand EXCEPT !.players = ps, !.rounds = rs, !.pots = pots]

(* Amounts for fmt_money: every fraction in mills of a few whole parts,     *)
(* of either sign.                                                          *)
WholeParts == {0, 1, 10, 999, 1000, 12345, 123456, 1234567}

Amount(sign, w, f) == sign * (w * 1000 + f)

(* Raw hands, as the JSON source writes them: ids as integers or strings. *)
RawId(enc, n) == IF enc = "int" THEN <<"int", n>> ELSE <<"str", to_string(n)>>

RawPlayers(enc) ==
    <<[id |-> RawId(enc, 1), seat |-> 2, name |-> "Alice", starting_stack |-> 10000],
      [id |-> RawId(enc, 2), seat |-> 1, name |-> "Bob", starting_stack |-> 9800]>>

RawA ==
    [BaseHand EXCEPT !.game_number = "A", !.players = RawPlayers("int"),
        !.rounds = <<Round(0, "Preflop", <<>>, <<
            Tpl(Some(RawId("int", 2)), "Post BB", Some(100), None, None),
            Tpl(Some(RawId("int", 1)), "Raise", Some(300), None, None)>>)>>,
        !.pots = <<[number |-> 0, amount |-> 400, rake |-> 0,
                    player_wins |-> <<[player_id |-> RawId("int", 1), win_amount |-> 400]>>]>>]

RawB ==
    [BaseHand EXCEPT !.game_number = "B", !.players = RawPlayers("str"),
        !.hero_player_id = Some(RawId("str", 1)),
        !.rounds = <<Round(0, "Preflop", <<>>, <<
            Tpl(Some(RawId("str", 1)), "Dealt Cards", None, None,
                Some(<<(<<"A", "h">>), (<<"k", "d">>)>>)),
            Tpl(Some(RawId("str", 1)), "Bet", Some(100), None, None)>>)>>]

RawC == [BaseHand EXCEPT !.game_number = "C", !.players = <<>>]

(* Hands of one file: a flop, a turn with a Raise without an amount under   *)
(* the action number 1, and the hands above.                                *)
RawFlop ==
    [BaseHand EXCEPT !.game_number = "F", !.players = RawPlayers("int"),
        !.rounds = <<Round(1, "Flop", FlopCards, <<
            Tpl(Some(RawId("int", 1)), "Check", None, None, None)>>)>>]

RawTurn ==
    [BaseHand EXCEPT !.game_number = "T", !.players = RawPlayers("int"),
        !.rounds = <<Round(2, "Turn", TurnCards, <<
            Tpl(Some(RawId("int", 2)), "Check", None, None, None),
            Tpl(Some(RawId("int", 1)), "Raise", None, None, None)>>)>>]

FileHandSet == {RawA, RawB, RawC, RawFlop, RawTurn}

(* Hands whose id-bearing fields are each written as an integer or as a    *)
(* string: the players of ids 2 and 12, an actor, a hero and a winner.      *)
IdNumbers == {1, 2, 12}

IdEncodings == {"int", "str"}

RawIdPlayers(enc) ==
    <<[id |-> RawId(enc, 12), seat |-> 2, name |-> "Alice", starting_stack |-> 10000],
      [id |-> RawId(enc, 2), seat |-> 1, name |-> "Bob", starting_stack |-> 9800]>>

RawIdHand(pe, ae, he, we, an, hero, wn) ==
    [BaseHand EXCEPT
        !.players = RawIdPlayers(pe),
        !.hero_player_id = IF hero = 0 THEN None ELSE Some(RawId(he, hero)),
        !.rounds = <<Round(0, "Preflop", <<>>, <<
            Tpl(Some(RawId(ae, an)), "Dealt Cards", None, None,
                Some(<<(<<"A", "h">>), (<<"k", "d">>)>>)),
            Tpl(Some(RawId(ae, an)), "Fold", None, None, None)>>)>>,
        !.pots = <<[number |-> 0, amount |-> 400, rake |-> 0,
                    player_wins |-> <<[player_id |-> RawId(we, wn), win_amount |-> 400]>>]>>]

FileA == Json(Some(RawA), None)

HandB == Json(None, Some(RawB))

HandC == Json(None, Some(RawC))

(* An object with an "ohh" member and the members of a hand beside it. *)
FileCHandA == Json(Some(RawC), Some(RawA))

(* Valid JSON in neither shape, such as {}. *)
NoShape == Json(None, None)

(* What stands between two "\n\n" of an input, before they are joined. *)
Pieces ==
    {<<>>, <<FileA>>, <<HandB>>, <<HandC>>, <<FileCHandA>>, <<NoShape>>, <<Junk>>,
     <<NL, HandB>>, <<HandB, NL>>, <<HandB, NL, FileA>>}

RECURSIVE JoinPieces(_)
JoinPieces(ps) ==
    IF Len(ps) = 1 THEN ps[1]
    ELSE ps[1] \o <<NL, NL>> \o JoinPieces(Tail(ps))

---------------------------------------------------------------------------
(* The library's entry points, each called once with an input of its set.   *)
(*   call : the function called ("none" before the call)                    *)
(*   arg  : its argument                                                    *)
(*   ret  : what the call produced                                          *)

Init == call = "none" /\ arg = <<>> /\ ret = <<>>

Parse ==
    /\ call = "none"
    /\ \E m \in 1..MaxChunks : \E ps \in [1..m -> Pieces] :
        /\ call' = "parse_ohh_chunks"
        /\ arg' = JoinPieces(ps)
        /\ ret' = parse_ohh_chunks(JoinPieces(ps))

Convert ==
    /\ call = "none"
    /\ \E m \in 1..MaxChunks : \E ps \in [1..m -> Pieces] :
        /\ call' = "convert_ohh_file"
        /\ arg' = JoinPieces(ps)
        /\ ret' = Converted(JoinPieces(ps))

(* convert on a file of containers, one hand each. *)
ConvertHands ==
    /\ call = "none"
    /\ \E m \in 1..MaxHands : \E hs \in [1..m -> FileHandSet] :
           LET text == JoinPieces([k \in 1..m |-> <<Json(Some(hs[k]), None)>>])
           IN  /\ call' = "convert_ohh_file"
               /\ arg' = text
               /\ ret' = Converted(text)

(* convert on one container whose ids are written in either encoding. *)
ConvertIds ==
    /\ call = "none"
    /\ \E pe \in IdEncodings, ae \in IdEncodings, he \in IdEncodings, we \in IdEncodings :
           \E an \in IdNumbers, hero \in IdNumbers \cup {0}, wn \in IdNumbers :
               LET text == <<Json(Some(RawIdHand(pe, ae, he, we, an, hero, wn)), None)>>
               IN  /\ call' = "convert_ohh_file"
                   /\ arg' = text
                   /\ ret' = Converted(text)

(* The loop of lines 510-535 over the actions of the first round of a hand, *)
(* one iteration at a time: arg holds the hand and the number of actions    *)
(* scanned, ret the locals of the loop.                                     *)
ScanStart ==
    /\ call = "none"
    /\ \E tpls \in SeqsUpTo(ScanTemplates, MaxScanActions) :
           /\ call' = "scan"
           /\ arg' = [h |-> ScanHand(tpls), k |-> 0]
           /\ ret' = ScanInit(EmptyTracker)

ScanNext ==
    /\ call = "scan"
    /\ arg.k < Len(arg.h.rounds[1].actions)
    /\ call' = call
    /\ arg' = [arg EXCEPT !.k = @ + 1]
    /\ ret' = ScanStep(arg.h, ret, arg.h.rounds[1].actions[arg.k + 1])

Render(h) ==
    /\ call' = "ohh_to_pokerstars_text"
    /\ arg' = h
    /\ ret' = Rendered(h)

RenderBetHand ==
    /\ call = "none"
    /\ \E m \in 0..MaxActions : \E tpls \in [1..m -> BetTemplates] :
           Render(OneRoundHand(tpls))

RenderTwoRoundHand ==
    /\ call = "none"
    /\ \E m1 \in 0..MaxSecondRound, m2 \in 0..MaxSecondRound :
           \E t1 \in [1..m1 -> FirstRoundTemplates], t2 \in [1..m2 -> SecondRoundTemplates] :
               Render(TwoRoundHand(t1, t2))

RenderFixture ==
    /\ call = "none"
    /\ Render(RaiseFixture)

RenderDealHand ==
    /\ call = "none"
    /\ \E hero \in DealHeroes : \E m \in 0..MaxDeals : \E tpls \in [1..m -> DealTemplates] :
           Render(DealHand(hero, tpls))

RenderSummaryHand ==
    /\ call = "none"
    /\ \E rs \in RoundLists, a \in {3970, 0}, r \in {0, 50} :
           \E m \in 0..MaxWins : \E ws \in [1..m -> Wins] :
               \E ps \in PotLists(FirstPot(a, r, ws)) :
                   Render(SummaryHand(rs, ps))

RenderOrderHand ==
    /\ call = "none"
    /\ \E street \in OrderStreets : \E m \in 0..MaxOrderActions :
           \E tpls \in [1..m -> OrderTemplates] :
               Render(OrderHand(street, tpls))

RenderRoundsHand ==
    /\ call = "none"
    /\ \E m \in 0..MaxRounds : \E rs \in [1..m -> StreetRounds] :
           Render(RoundsHand(rs))

RenderSkipHand ==
    /\ call = "none"
    /\ \E street \in {"Preflop", "Flop"}, tpls \in SeqsUpTo(SkipTemplates, MaxSkipActions) :
           Render(SkipHand(street, tpls))

RenderSeatsHand ==
    /\ call = "none"
    /\ \E ps \in SeqsUpTo(SeatPlayers, MaxPlayers), rs \in SeatRounds, pots \in SeatPots :
           Render(SeatsHand(ps, rs, pots))

RenderAnyCardHand ==
    /\ call = "none"
    /\ \E c1 \in AnyCards, c2 \in AnyCards :
           \E ps \in {<<>>, <<Alice, Bob>>}, rs \in AnyCardRounds(c1, c2), pots \in AnyCardPots :
               Render(AnyCardHand(ps, rs, pots))

FmtMoney ==
    /\ call = "none"
    /\ \E sign \in {1, -1}, w \in WholeParts, f \in 0..999 :
        /\ call' = "fmt_money"
        /\ arg' = Amount(sign, w, f)
        /\ ret' = fmt_money_chars(Amount(sign, w, f))

(* card on a string of any characters: the call panics or returns. *)
Card ==
    /\ call = "none"
    /\ \E c \in SeqsUpTo(Chars, MaxCardLen) :
           /\ call' = "card"
           /\ arg' = c
           /\ ret' = [panic |-> cardPanics(c), val |-> card(c)]

RenderHand ==
    \/ RenderBetHand \/ RenderTwoRoundHand \/ RenderFixture \/ RenderDealHand
    \/ RenderSummaryHand \/ RenderOrderHand \/ RenderRoundsHand \/ RenderSeatsHand
    \/ RenderSkipHand

Next == Parse \/ Convert \/ ConvertIds \/ ConvertHands \/ ScanStart \/ ScanNext \/ RenderHand \/ RenderAnyCardHand \/ FmtMoney \/ Card

Spec == Init /\ [][Next]_vars

(* The parser and the orchestrator. *)
SpecParse == Init /\ [][Parse \/ Convert]_vars

(* The renderer on hands whose cards are card codes. *)
SpecRender == Init /\ [][RenderHand]_vars

(* The renderer on betting rounds. *)
SpecBet == Init /\ [][RenderBetHand \/ RenderTwoRoundHand \/ RenderFixture]_vars

(* The renderer on deals. *)
SpecDeal == Init /\ [][RenderDealHand]_vars

(* The renderer on hands with and without pots. *)
SpecSummary == Init /\ [][RenderSummaryHand]_vars

(* The renderer on hands with arbitrary card strings. *)
(* Renders of one round of interleaved actions. *)
SpecOrder == Init /\ [][RenderOrderHand]_vars

(* Renders of round lists in any order. *)
SpecRounds == Init /\ [][RenderRoundsHand]_vars

(* The scan of a street, step by step. *)
SpecScan == Init /\ [][ScanStart \/ ScanNext]_vars

SpecHands == Init /\ [][ConvertHands]_vars

SpecSkip == Init /\ [][RenderSkipHand]_vars

SpecSeats == Init /\ [][RenderSeatsHand]_vars

SpecAnyCards == Init /\ [][RenderAnyCardHand]_vars

(* Renders of hands of every family, arbitrary card strings included. *)
SpecRenderAny == Init /\ [][RenderHand \/ RenderAnyCardHand]_vars

(* The money formatter. *)
(* Conversions of hands with ids in either encoding. *)
SpecIds == Init /\ [][ConvertIds]_vars

SpecMoney == Init /\ [][FmtMoney]_vars

(* Calls of card alone. *)
SpecCard == Init /\ [][Card]_vars

---------------------------------------------------------------------------
(* Properties of parse_ohh_chunks and convert_ohh_file                      *)

Range(f) == {f[k] : k \in DOMAIN f}

(* The chunk decodes, as a container or as a single hand. *)
Decodes(chunk) == IsSome(from_str_OhhFile(chunk)) \/ IsSome(from_str_OhhHand(chunk))

(* The hand record of a chunk that decodes: the container's, else the hand. *)
RecordOf(chunk) ==
    IF IsSome(from_str_OhhFile(chunk)) THEN Unwrap(from_str_OhhFile(chunk)).ohh
    ELSE Unwrap(from_str_OhhHand(chunk))

GoodChunks(text) == SelectSeq(split(text), Decodes)

(* C1: parse never aborts on a malformed chunk. The sequence it returns is  *)
(* the hand records of the chunks that decode, in chunk order; the chunks   *)
(* that decode in neither shape add nothing and change nothing: the input   *)
(* without them gives the same result.                                      *)
C1_ParseSkipsBadChunks ==
    call = "parse_ohh_chunks" =>
        LET good == GoodChunks(arg)
        IN  /\ ret.val = [k \in 1..Len(good) |-> RecordOf(good[k])]
            /\ ret = ParseResult(ParseLoop(good, Len(good)))

(* A decodable chunk, then one that is no JSON, then a decodable chunk: two records. *)
C1_Witness ==
    /\ call = "parse_ohh_chunks"
    /\ \E k \in 2..(Len(split(arg)) - 1) :
        /\ Decodes(split(arg)[k - 1])
        /\ Junk \in Range(split(arg)[k])
        /\ Decodes(split(arg)[k + 1])
    /\ ret.ok
    /\ Len(ret.val) = 2

(* C2: parse returns an error exactly when no record was decoded; when a    *)
(* chunk decodes it returns Ok with a non-empty sequence that holds the     *)
(* record of every chunk that decoded.                                      *)
C2_ErrorIffNothingDecoded ==
    call = "parse_ohh_chunks" =>
        LET chunks == split(arg)
            decoded == {k \in 1..Len(chunks) : Decodes(chunks[k])}
        IN  /\ ~ret.ok <=> decoded = {}
            /\ ~ret.ok => ret.val = <<>> /\ ret.err # ""
            /\ ret.ok =>
                /\ ret.val # <<>>
                /\ Len(ret.val) = Cardinality(decoded)
                /\ \A k \in decoded : RecordOf(chunks[k]) \in Range(ret.val)

(* Several chunks, none decodes, one of them valid JSON: an error. *)
C2_Witness ==
    /\ call = "parse_ohh_chunks"
    /\ Len(split(arg)) >= 2
    /\ \E k \in 1..Len(split(arg)) : IsSome(JsonValue(split(arg)[k]))
    /\ ~ret.ok

RECURSIVE BlockOffset(_, _)
(* The lines before block k of a join: the blocks before it and a separator *)
(* of four line breaks, three empty lines, after each.                      *)
BlockOffset(blocks, k) ==
    IF k = 1 THEN 0
    ELSE BlockOffset(blocks, k - 1) + Len(blocks[k - 1]) + 3

(* C3: convert fails exactly when the parser yields no records; otherwise   *)
(* its result is the render of each parsed hand, in parse order, with the   *)
(* separator "\n\n\n\n" between two blocks: n blocks, n - 1 separators.     *)
C3_ConvertJoinsRenders ==
    call = "convert_ohh_file" =>
        LET parsed == parse_ohh_chunks(arg)
            n == Len(parsed.val)
            blocks == [k \in 1..n |-> ohh_to_pokerstars_text(parsed.val[k])]
            text == ret.res.val
        IN  /\ ~ret.panic
            /\ ~ret.res.ok <=> ~parsed.ok
            /\ ret.res.ok =>
                /\ n >= 1
                /\ Len(text) = BlockOffset(blocks, n) + Len(blocks[n])
                /\ \A k \in 1..n :
                    SubSeq(text, BlockOffset(blocks, k) + 1,
                           BlockOffset(blocks, k) + Len(blocks[k])) = blocks[k]
                /\ \A k \in 2..n : \A j \in 1..3 : text[BlockOffset(blocks, k) - 3 + j] = ""

(* Three hands converted, the hand of a container among them. *)
C3_Witness ==
    /\ call = "convert_ohh_file"
    /\ ret.res.ok
    /\ Len(parse_ohh_chunks(arg).val) = 3
    /\ \E k \in 1..Len(split(arg)) : IsSome(from_str_OhhFile(split(arg)[k]))

---------------------------------------------------------------------------
(* Properties of fmt_money                                                  *)

DigitChars == {"0", "1", "2", "3", "4", "5", "6", "7", "8", "9"}

(* C10: fmt_money always outputs "$<dollars>.<cents>" with a cent part of   *)
(* exactly two digits, for every amount, those whose fraction rounds up to  *)
(* a whole unit included; a negative amount has "-" before the "$".         *)
C10_TwoDigitCents ==
    call = "fmt_money" =>
        LET body == IF arg < 0 THEN Tail(ret) ELSE ret
            n == Len(body)
        IN  /\ arg < 0 <=> ret[1] = "-"
            /\ n >= 5
            /\ body[1] = "$"
            /\ \A k \in 2..(n - 3) : body[k] \in DigitChars \cup {","}
            /\ body[n - 2] = "."
            /\ body[n - 1] \in DigitChars
            /\ body[n] \in DigitChars

---------------------------------------------------------------------------
(* Properties of ohh_to_pokerstars_text                                     *)

(* C4: render is total: it returns a text for every decoded hand record,    *)
(* whatever its ids, lists, amounts and card strings, and never panics.     *)
C4_RenderNeverPanics ==
    call = "ohh_to_pokerstars_text" => ~ret.panic

---------------------------------------------------------------------------
(* The place of a line in the rendered text, counted from the hand record.  *)

KnownActions ==
    Postings \cup {"Dealt Cards", "Fold", "Check", "Call", "Bet", "Raise",
                   "Shows Cards", "Muck"}

(* The action has a line in the text. *)
HasLine(h, a) ==
    /\ IsSome(a.player_id)
    /\ a.action \in KnownActions
    /\ a.action = "Dealt Cards" =>
          /\ h.hero_player_id = None \/ h.hero_player_id = a.player_id
          /\ IsSome(a.cards)
          /\ Len(Unwrap(a.cards)) >= 2

HeaderCount(round) ==
    IF round.street \in {"Preflop", "Flop", "Turn", "River", "Showdown"} THEN 1 ELSE 0

(* The actions of a round that are printed ahead of its other actions. *)
PrintedFirst(a) == a.action \in Postings \cup {"Dealt Cards"}

LineCount(h, round) ==
    HeaderCount(round)
        + Cardinality({j \in 1..Len(round.actions) : HasLine(h, round.actions[j])})

RECURSIVE LinesBefore(_, _)
(* The number of lines ahead of round r: header, table, seats, rounds < r. *)
LinesBefore(h, r) ==
    IF r = 1 THEN 2 + (IF h.players = <<>> THEN 1 ELSE Len(h.players))
    ELSE LinesBefore(h, r - 1) + LineCount(h, h.rounds[r - 1])

(* The line number of action i of round r, an action not printed first. *)
LinePos(h, r, i) ==
    LET acts == h.rounds[r].actions
    IN  LinesBefore(h, r) + HeaderCount(h.rounds[r])
          + Cardinality({j \in 1..Len(acts) : HasLine(h, acts[j]) /\ PrintedFirst(acts[j])})
          + Cardinality({j \in 1..(i - 1) : HasLine(h, acts[j]) /\ ~PrintedFirst(acts[j])})
          + 1

(* The postings, bets and raises with an amount ahead of action i. *)
Baselines(h, r, i) ==
    {j \in 1..(i - 1) :
        /\ h.rounds[r].actions[j].action \in Postings \cup {"Bet", "Raise"}
        /\ IsSome(h.rounds[r].actions[j].amount)}

(* The running last-bet amount of the street right before action i. *)
PriorAmount(h, r, i) ==
    LET js == Baselines(h, r, i)
    IN  IF js = {} THEN 0
        ELSE Unwrap(h.rounds[r].actions[CHOOSE j \in js : \A k \in js : k <= j].amount)

RaisesForm(h, a, P) ==
    name_by_id(h, Unwrap(a.player_id)) \o ": raises " \o fmt_money(Unwrap(a.amount) - P)
        \o " to " \o fmt_money(Unwrap(a.amount))

BetsForm(h, a) ==
    name_by_id(h, Unwrap(a.player_id)) \o ": bets " \o fmt_money(Unwrap(a.amount))

FlagSuffix(a) == IF a.is_allin = Some(TRUE) THEN " and is all-in" ELSE ""

(* Action i of round r is of the kind, with an actor and an amount. *)
IsPriced(h, r, i, kind) ==
    /\ h.rounds[r].actions[i].action = kind
    /\ IsSome(h.rounds[r].actions[i].player_id)
    /\ IsSome(h.rounds[r].actions[i].amount)

RaiseForm(h, r, i) ==
    IF PriorAmount(h, r, i) > 0
    THEN RaisesForm(h, h.rounds[r].actions[i], PriorAmount(h, r, i))
    ELSE BetsForm(h, h.rounds[r].actions[i])

(* C5, as stated: the line of a Raise with amount A is                      *)
(* "<name>: raises <A - P> to <A>" when the running last-bet amount P of    *)
(* the street before it is positive and "<name>: bets <A>" otherwise; the   *)
(* Raise 0.30 after Post SB 0.05 and Post BB 0.10 raises $0.20 to $0.30.    *)
C5_RaiseLineIsForm ==
    (call = "ohh_to_pokerstars_text" /\ ~ret.panic) =>
        /\ \A r \in 1..Len(arg.rounds) : \A i \in 1..Len(arg.rounds[r].actions) :
              IsPriced(arg, r, i, "Raise") =>
                  ret.text[LinePos(arg, r, i)] = RaiseForm(arg, r, i)
        /\ arg = RaiseFixture =>
              ret.text[LinePos(arg, 1, 3)] = "Alice: raises $0.20 to $0.30"

(* C5, amended: the line of a Raise with an actor and amount A is the form  *)
(* above followed by " and is all-in" when its all-in flag is set.          *)
C5_RaiseRendering ==
    (call = "ohh_to_pokerstars_text" /\ ~ret.panic) =>
        /\ \A r \in 1..Len(arg.rounds) : \A i \in 1..Len(arg.rounds[r].actions) :
              IsPriced(arg, r, i, "Raise") =>
                  ret.text[LinePos(arg, r, i)]
                      = RaiseForm(arg, r, i) \o FlagSuffix(arg.rounds[r].actions[i])
        /\ arg = RaiseFixture =>
              ret.text[LinePos(arg, 1, 3)] = "Alice: raises $0.20 to $0.30"

(* A hand rendered with a Raise on no baseline and an all-in Raise on a     *)
(* positive one.                                                            *)
C5_Witness ==
    /\ call = "ohh_to_pokerstars_text"
    /\ ~ret.panic
    /\ \E r \in 1..Len(arg.rounds) : \E i, k \in 1..Len(arg.rounds[r].actions) :
          /\ IsPriced(arg, r, i, "Raise")
          /\ PriorAmount(arg, r, i) = 0
          /\ ret.text[LinePos(arg, r, i)] = BetsForm(arg, arg.rounds[r].actions[i])
          /\ IsPriced(arg, r, k, "Raise")
          /\ PriorAmount(arg, r, k) > 0
          /\ arg.rounds[r].actions[k].is_allin = Some(TRUE)
          /\ ret.text[LinePos(arg, r, k)]
                = RaisesForm(arg, arg.rounds[r].actions[k], PriorAmount(arg, r, k))
                      \o " and is all-in"

(* A Bet or Raise with an amount comes ahead of action i on the street. *)
Registered(h, r, i) ==
    \E j \in 1..(i - 1) :
        /\ h.rounds[r].actions[j].action \in {"Bet", "Raise"}
        /\ IsSome(h.rounds[r].actions[j].amount)

BetForm(h, r, i) ==
    IF Registered(h, r, i) /\ PriorAmount(h, r, i) > 0
    THEN RaisesForm(h, h.rounds[r].actions[i], PriorAmount(h, r, i))
    ELSE BetsForm(h, h.rounds[r].actions[i])

(* C6: the line of a Bet with amount A is "<name>: bets <A>" when no Bet or *)
(* Raise came earlier on the street, postings or not, and                   *)
(* "<name>: raises <A - P> to <A>" when a Bet or Raise was registered       *)
(* earlier on the street and the running amount P is positive; the line     *)
(* ends with " and is all-in" exactly when the all-in flag is set.          *)
C6_BetRendering ==
    (call = "ohh_to_pokerstars_text" /\ ~ret.panic) =>
        \A r \in 1..Len(arg.rounds) : \A i \in 1..Len(arg.rounds[r].actions) :
            IsPriced(arg, r, i, "Bet") =>
                ret.text[LinePos(arg, r, i)]
                    = BetForm(arg, r, i) \o FlagSuffix(arg.rounds[r].actions[i])

(* A hand rendered with a Bet that follows a posting alone and an all-in    *)
(* Bet that follows a registered Bet.                                       *)
C6_Witness ==
    /\ call = "ohh_to_pokerstars_text"
    /\ ~ret.panic
    /\ \E r \in 1..Len(arg.rounds) : \E i, k \in 1..Len(arg.rounds[r].actions) :
          /\ IsPriced(arg, r, i, "Bet")
          /\ ~Registered(arg, r, i)
          /\ PriorAmount(arg, r, i) > 0
          /\ ret.text[LinePos(arg, r, i)] = BetsForm(arg, arg.rounds[r].actions[i])
          /\ IsPriced(arg, r, k, "Bet")
          /\ Registered(arg, r, k)
          /\ PriorAmount(arg, r, k) > 0
          /\ arg.rounds[r].actions[k].is_allin = Some(TRUE)
          /\ ret.text[LinePos(arg, r, k)]
                = RaisesForm(arg, arg.rounds[r].actions[k], PriorAmount(arg, r, k))
                      \o " and is all-in"

(* All actions of the hand, round after round. *)
AllActions(h) == Flatten([r \in 1..Len(h.rounds) |-> h.rounds[r].actions])

(* The "Dealt to" line of a player name and a card list. *)
DealtTo(n, cs) ==
    "Dealt to " \o n \o " [" \o cardStr(cs[1]) \o " " \o cardStr(cs[2]) \o "]"

(* Every "Dealt to" line that shows cards dealt in the hand to some name. *)
DealtLines(h) ==
    {DealtTo(n, Unwrap(a.cards)) :
        n \in {h.players[k].name : k \in 1..Len(h.players)} \cup {"Unknown"},
        a \in {b \in Range(AllActions(h)) :
                  b.action = "Dealt Cards" /\ IsSome(b.cards) /\ Len(Unwrap(b.cards)) >= 2}}

(* The deal gets a line: its actor is the hero when there is one, it has an *)
(* actor, and two cards or more.                                            *)
DealIsShown(h, a) ==
    /\ a.action = "Dealt Cards"
    /\ IsSome(a.player_id)
    /\ IsSome(h.hero_player_id) => Unwrap(h.hero_player_id) = Unwrap(a.player_id)
    /\ IsSome(a.cards)
    /\ Len(Unwrap(a.cards)) >= 2

(* C7: the "Dealt to" lines of the text are those of the Dealt Cards        *)
(* actions with an actor and two cards or more, of the hero alone when a    *)
(* hero is set and of every actor when none is, one line per action, in     *)
(* order.                                                                   *)
C7_HeroFiltersDeals ==
    (call = "ohh_to_pokerstars_text" /\ ~ret.panic) =>
        LET IsDealtLine(line) == line \in DealtLines(arg)
            Shown(a) == DealIsShown(arg, a)
            shown == SelectSeq(AllActions(arg), Shown)
        IN  SelectSeq(ret.text, IsDealtLine)
                = [k \in 1..Len(shown) |->
                      DealtTo(name_by_id(arg, Unwrap(shown[k].player_id)),
                              Unwrap(shown[k].cards))]

(* A hand with a hero rendered, with deals of two cards to the hero and to  *)
(* another player: the text has the hero's line alone.                      *)
C7_Witness ==
    /\ call = "ohh_to_pokerstars_text"
    /\ ~ret.panic
    /\ arg.hero_player_id = Some("1")
    /\ \E i, k \in 1..Len(arg.rounds[1].actions) :
          LET a == arg.rounds[1].actions[i]
              b == arg.rounds[1].actions[k]
          IN  /\ i < k
              /\ a.action = "Dealt Cards" /\ a.player_id = Some("2")
              /\ IsSome(a.cards) /\ Len(Unwrap(a.cards)) >= 2
              /\ b.action = "Dealt Cards" /\ b.player_id = Some("1")
              /\ IsSome(b.cards) /\ Len(Unwrap(b.cards)) >= 2
              /\ DealtTo("Alice", Unwrap(b.cards)) \in Range(ret.text)
              /\ \A line \in Range(ret.text) :
                    line \in DealtLines(arg) => line = DealtTo("Alice", Unwrap(b.cards))

(* The number of lines ahead of the summary. *)
LinesBeforeSummary(h) == LinesBefore(h, Len(h.rounds) + 1)

(* The lines of the text from the summary marker on. *)
SummaryBlock(h, text) == SubSeq(text, LinesBeforeSummary(h) + 1, Len(text))

(* C8: with an empty pot list the summary block is the two lines            *)
(* "*** SUMMARY ***" and "Total pot $0.00 | Rake $0.00" and nothing else,   *)
(* no Board line and no winner line, whatever the rounds and their cards:   *)
(* summarize returns the two lines for any card strings, and they are the   *)
(* lines of the text after those of the rounds.                             *)
C8_EmptyPotsSummary ==
    (call = "ohh_to_pokerstars_text" /\ arg.pots = <<>>) =>
        /\ ~summarizePanics(arg)
        /\ summarize(arg) = <<"*** SUMMARY ***", "Total pot $0.00 | Rake $0.00">>
        /\ ~ret.panic =>
              /\ SummaryBlock(arg, ret.text)
                    = <<"*** SUMMARY ***", "Total pot $0.00 | Rake $0.00">>
              /\ \A k \in 1..LinesBeforeSummary(arg) : ret.text[k] # "*** SUMMARY ***"

(* A hand with no pot and a board of four cards rendered. *)
C8_Witness ==
    /\ call = "ohh_to_pokerstars_text"
    /\ arg.pots = <<>>
    /\ \E r \in 1..Len(arg.rounds) :
          arg.rounds[r].street = "Turn" /\ arg.rounds[r].cards # <<>>
    /\ \E r \in 1..Len(arg.rounds) :
          arg.rounds[r].street = "Flop" /\ Len(arg.rounds[r].cards) = 3
    /\ Len(ret.text) = LinesBeforeSummary(arg) + 2
    /\ ret.text[Len(ret.text)] = "Total pot $0.00 | Rake $0.00"

(* The hand has a board: a Flop, Turn or River round with cards. *)
HasBoard(h) ==
    \E r \in 1..Len(h.rounds) :
        h.rounds[r].street \in {"Flop", "Turn", "River"} /\ h.rounds[r].cards # <<>>

(* The "collected" line of a winner entry. *)
Collected(h, w) ==
    "Seat " \o to_string(seat_by_id(h, w.player_id)) \o ": " \o name_by_id(h, w.player_id)
        \o " collected (" \o fmt_money(w.win_amount) \o ")"

(* Every "collected" line of a winner entry of some pot of the hand. *)
CollectedLines(h) ==
    {Collected(h, w) : w \in UNION {Range(h.pots[k].player_wins) : k \in 1..Len(h.pots)}}

(* C9: with one pot or more, the total and rake of the summary are those of *)
(* the first pot, its "collected" lines are one per winner entry of the     *)
(* first pot, in the listed order, and the text is the text of the hand     *)
(* with its first pot alone.                                                *)
C9_SummaryFromFirstPot ==
    (call = "ohh_to_pokerstars_text" /\ arg.pots # <<>> /\ ~ret.panic) =>
        LET pot == arg.pots[1]
            block == SummaryBlock(arg, ret.text)
            IsCollected(line) == line \in CollectedLines(arg)
        IN  /\ block[1] = "*** SUMMARY ***"
            /\ block[2] = "Total pot " \o fmt_money(pot.amount)
                              \o " | Rake " \o fmt_money(pot.rake)
            /\ Len(block) = 2 + (IF HasBoard(arg) THEN 1 ELSE 0) + Len(pot.player_wins)
            /\ SelectSeq(ret.text, IsCollected)
                  = [k \in 1..Len(pot.player_wins) |-> Collected(arg, pot.player_wins[k])]
            /\ SubSeq(block, Len(block) - Len(pot.player_wins) + 1, Len(block))
                  = SelectSeq(ret.text, IsCollected)
            /\ ret = Rendered([arg EXCEPT !.pots = <<pot>>])

(* A hand rendered with two pots that differ in amount and winners, the     *)
(* first with two winner entries.                                           *)
C9_Witness ==
    /\ call = "ohh_to_pokerstars_text"
    /\ ~ret.panic
    /\ Len(arg.pots) = 2
    /\ Len(arg.pots[1].player_wins) = 2
    /\ arg.pots[1].player_wins[1] # arg.pots[1].player_wins[2]
    /\ arg.pots[2].player_wins # <<>>
    /\ arg.pots[2].amount # arg.pots[1].amount
    /\ Collected(arg, arg.pots[2].player_wins[1]) \notin Range(ret.text)
    /\ ret.text[Len(ret.text)] = Collected(arg, arg.pots[1].player_wins[2])

---------------------------------------------------------------------------
(* The dollar part of a formatted amount.                                   *)

(* The characters between the "$" and the "." of a formatted amount. *)
DollarPart(chars) ==
    LET unsigned == IF chars[1] = "-" THEN Tail(chars) ELSE chars
        dot == CHOOSE k \in 1..Len(unsigned) : unsigned[k] = "."
    IN  SubSeq(unsigned, 2, dot - 1)

DigitValue(ch) == CHOOSE d \in 0..9 : DigitChar(d) = ch

RECURSIVE NumberOf(_)
(* The number a sequence of decimal digits writes. *)
NumberOf(digits) ==
    IF digits = <<>> THEN 0
    ELSE 10 * NumberOf(SubSeq(digits, 1, Len(digits) - 1)) + DigitValue(digits[Len(digits)])

IsDigit(ch) == ch \in DigitChars

(* C11: the dollar part of fmt_money has a "," ahead of every group of      *)
(* three digits counted from the right, and nowhere else, exactly when the  *)
(* dollar part is 1000 or more; it never starts with a comma, has none      *)
(* below 1000, and its digits write the dollar part: 1000 gives             *)
(* "$1,000.00" and 1234567 gives "$1,234,567.00".                           *)
C11_ThousandsSeparators ==
    call = "fmt_money" =>
        LET part == DollarPart(ret)
            n == Len(part)
            digits == SelectSeq(part, IsDigit)
        IN  /\ \A k \in 1..n :
                  IF k > 1 /\ (n - k + 1) % 4 = 0 THEN part[k] = "," ELSE IsDigit(part[k])
            /\ digits # <<>>
            /\ Len(digits) > 1 => digits[1] # "0"
            /\ NumberOf(digits) = Abs(arg) \div 1000
            /\ ("," \in Range(part)) <=> (Abs(arg) \div 1000 >= 1000)
            /\ arg = 1000000 =>
                  ret = <<"$", "1", ",", "0", "0", "0", ".", "0", "0">>
            /\ arg = 1234567000 =>
                  ret = <<"$", "1", ",", "2", "3", "4", ",", "5", "6", "7", ".", "0", "0">>

(* A negative amount of six dollar digits, formatted with one separator. *)
C11_Witness ==
    /\ call = "fmt_money"
    /\ arg = -123456250
    /\ ret = <<"-", "$", "1", "2", "3", ",", "4", "5", "6", ".", "2", "5">>

(* C12: card is idempotent on every card string, card(card(x)) = card(x);   *)
(* a code of two characters becomes the rank in upper case and the suit in  *)
(* lower case, and a string of fewer than two characters is returned as it  *)
(* is.                                                                      *)
C12_CardIdempotent ==
    call = "card" =>
        /\ ~ret.panic
        /\ ~cardPanics(ret.val)
        /\ card(ret.val) = ret.val
        /\ Len(arg) = 2 => ret.val = <<to_uppercase(arg[1]), to_lowercase(arg[2])>>
        /\ Len(arg) < 2 => ret.val = arg

---------------------------------------------------------------------------
(* The block of a round in the rendered text.                               *)

(* The board cards known once round r has added its own. *)
AllBoardAt(h, r) == Flatten([k \in 1..r |-> h.rounds[k].cards])

(* The header of round r, "" when the street has none. *)
HeaderOf(h, r) == street_header(h.rounds[r].street, h.rounds[r].cards, AllBoardAt(h, r))

(* The lines of round r in the text. *)
RoundBlock(h, text, r) == SubSeq(text, LinesBefore(h, r) + 1, LinesBefore(h, r + 1))

PlayerNames(h) == {h.players[k].name : k \in 1..Len(h.players)} \cup {"Unknown"}

(* Every posting line of some name and some amount of the hand. *)
PostLines(h) ==
    {n \o ": posts " \o what \o fmt_money(unwrap_or(a.amount, 0)) :
        n \in PlayerNames(h),
        what \in {"small blind ", "big blind ", "the ante "},
        a \in Range(AllActions(h))}

(* The group of a line of a block, from the posting lines, the deal lines  *)
(* and the header of the round.                                             *)
LineGroup(posts, deals, header, line) ==
    CASE line \in posts -> "post"
      [] line \in deals -> "deal"
      [] line # "" /\ line = header -> "header"
      [] OTHER -> "other"

(* The place of a group in the block of a street. *)
GroupRank(street, group) ==
    IF street = "Preflop"
    THEN CASE group = "post" -> 1 [] group = "header" -> 2
           [] group = "deal" -> 3 [] OTHER -> 4
    ELSE CASE group = "header" -> 1 [] group = "post" -> 2
           [] group = "deal" -> 3 [] OTHER -> 4

(* The number of lines of a group in a block, from the groups of its lines. *)
GroupCount(groups, group) ==
    Cardinality({k \in 1..Len(groups) : groups[k] = group})

(* C13: in the block of a Preflop round the posting lines come first, then  *)
(* the header, then the Dealt Cards lines, then the other lines; in the     *)
(* block of any other round the header comes first, then the posting lines, *)
(* the Dealt Cards lines and the other lines; every posting and every deal  *)
(* that has a line is in its group, however the source interleaves them.    *)
C13_EmissionOrder ==
    (call = "ohh_to_pokerstars_text" /\ ~ret.panic) =>
        \A r \in 1..Len(arg.rounds) :
            LET round == arg.rounds[r]
                acts == round.actions
                block == RoundBlock(arg, ret.text, r)
                posts == PostLines(arg)
                deals == DealtLines(arg)
                header == HeaderOf(arg, r)
                groups == [k \in 1..Len(block) |-> LineGroup(posts, deals, header, block[k])]
                ranks == [k \in 1..Len(block) |-> GroupRank(round.street, groups[k])]
            IN  /\ Len(block) = LineCount(arg, round)
                /\ \A i, j \in 1..Len(block) : i < j => ranks[i] <= ranks[j]
                /\ GroupCount(groups, "header") = HeaderCount(round)
                /\ GroupCount(groups, "post")
                      = Cardinality({k \in 1..Len(acts) :
                            HasLine(arg, acts[k]) /\ acts[k].action \in Postings})
                /\ GroupCount(groups, "deal")
                      = Cardinality({k \in 1..Len(acts) : DealIsShown(arg, acts[k])})

(* A Preflop round given as a fold, a deal, a posting, rendered as the      *)
(* posting, the header, the deal, the fold.                                 *)
C13_Witness ==
    /\ call = "ohh_to_pokerstars_text"
    /\ ~ret.panic
    /\ Len(arg.rounds) = 1
    /\ arg.rounds[1].street = "Preflop"
    /\ Len(arg.rounds[1].actions) = 3
    /\ arg.rounds[1].actions[1].action = "Fold"
    /\ arg.rounds[1].actions[2].action = "Dealt Cards"
    /\ arg.rounds[1].actions[3].action = "Post BB"
    /\ RoundBlock(arg, ret.text, 1)
          = <<"Bob: posts big blind $0.10", "*** HOLE CARDS ***",
              "Dealt to Alice [Ah Kd]", "Alice: folds">>

(* The number of posting lines of a round. *)
PostCount(h, round) ==
    Cardinality({k \in 1..Len(round.actions) :
        HasLine(h, round.actions[k]) /\ round.actions[k].action \in Postings})

(* The line number of the header of round r, a round with a header. *)
HeaderPos(h, r) ==
    LinesBefore(h, r) + 1
        + (IF h.rounds[r].street = "Preflop" THEN PostCount(h, h.rounds[r]) ELSE 0)

(* The line number of the deal i of round r, a deal with a line. *)
DealPos(h, r, i) ==
    LET acts == h.rounds[r].actions
    IN  LinesBefore(h, r) + HeaderCount(h.rounds[r]) + PostCount(h, h.rounds[r])
          + Cardinality({j \in 1..(i - 1) : DealIsShown(h, acts[j])}) + 1

PlainActions == {"Fold", "Check", "Muck", "Shows Cards"}

(* The line of an action that needs no bookkeeping. *)
PlainLine(h, a) ==
    LET n == name_by_id(h, Unwrap(a.player_id))
    IN  CASE a.action = "Fold" -> n \o ": folds"
          [] a.action = "Check" -> n \o ": checks"
          [] a.action = "Muck" -> n \o ": mucks hand"
          [] a.action = "Shows Cards" ->
                IF IsSome(a.cards) /\ Len(Unwrap(a.cards)) >= 2
                THEN n \o ": shows [" \o cardStr(Unwrap(a.cards)[1]) \o " "
                         \o cardStr(Unwrap(a.cards)[2]) \o "]"
                ELSE n \o ": shows"

(* The line number of the one line of the text that is the given line. *)
IndexOf(text, line) == CHOOSE k \in 1..Len(text) : text[k] = line

(* C14: the text is the header line, the table line, the seats block, the   *)
(* block of every round in the order of the round list, whatever the        *)
(* streets and ids, and the summary block last: the header and the lines    *)
(* of the actions of round r are at their places in block r. For rounds     *)
(* Preflop, Flop, Turn, River the "Dealt to" line precedes "*** FLOP ***",  *)
(* then "*** TURN ***", "*** RIVER ***" and the "shows" line of the River.  *)
C14_BlockOrder ==
    (call = "ohh_to_pokerstars_text" /\ ~ret.panic) =>
        /\ ret.text[1] = build_header(arg)
        /\ ret.text[2] = build_table(arg)
        /\ SubSeq(ret.text, 3, LinesBefore(arg, 1)) = build_seats(arg)
        /\ \A r \in 1..Len(arg.rounds) :
              /\ HeaderCount(arg.rounds[r]) = 1 =>
                    ret.text[HeaderPos(arg, r)] = HeaderOf(arg, r)
              /\ \A i \in 1..Len(arg.rounds[r].actions) :
                    LET a == arg.rounds[r].actions[i]
                    IN  /\ (HasLine(arg, a) /\ a.action \in PlainActions) =>
                              ret.text[LinePos(arg, r, i)] = PlainLine(arg, a)
                        /\ DealIsShown(arg, a) =>
                              ret.text[DealPos(arg, r, i)]
                                  = DealtTo(name_by_id(arg, Unwrap(a.player_id)),
                                            Unwrap(a.cards))
        /\ SummaryBlock(arg, ret.text) = summarize(arg)
        /\ ret.text[LinesBeforeSummary(arg) + 1] = "*** SUMMARY ***"
        /\ [r \in 1..Len(arg.rounds) |-> arg.rounds[r].street]
                = <<"Preflop", "Flop", "Turn", "River">>
              /\ arg.rounds \in [1..4 -> StreetRounds]
           => /\ IndexOf(ret.text, "Dealt to Alice [Ah Kd]")
                    < IndexOf(ret.text, "*** FLOP *** [Ah Kd 2d]")
              /\ IndexOf(ret.text, "*** FLOP *** [Ah Kd 2d]")
                    < IndexOf(ret.text, "*** TURN *** [Ah Kd 2d] [Th]")
              /\ IndexOf(ret.text, "*** TURN *** [Ah Kd 2d] [Th]")
                    < IndexOf(ret.text, "*** RIVER *** [Ah Kd 2d Th] [9d]")
              /\ IndexOf(ret.text, "*** RIVER *** [Ah Kd 2d Th] [9d]")
                    < IndexOf(ret.text, "Bob: shows [Th 9d]")
              /\ IndexOf(ret.text, "Bob: shows [Th 9d]") < LinesBeforeSummary(arg) + 1

(* A round list given as River, Flop, Preflop, ids 3, 1, 0, rendered in     *)
(* that order.                                                              *)
C14_Witness ==
    /\ call = "ohh_to_pokerstars_text"
    /\ ~ret.panic
    /\ Len(arg.rounds) = 3
    /\ [r \in 1..3 |-> arg.rounds[r].street] = <<"River", "Flop", "Preflop">>
    /\ [r \in 1..3 |-> arg.rounds[r].id] = <<3, 1, 0>>
    /\ SubSeq(ret.text, LinesBefore(arg, 1) + 1, LinesBeforeSummary(arg))
          = <<"*** RIVER *** [9d]", "Bob: shows [Th 9d]",
              "*** FLOP *** [Ah Kd 2d]", "Alice: checks",
              "Bob: posts big blind $0.10", "*** HOLE CARDS ***",
              "Dealt to Alice [Ah Kd]">>

---------------------------------------------------------------------------
(* Ids that match no player.                                                *)

PlayerIds(h) == {h.players[k].id : k \in 1..Len(h.players)}

(* The ids of the actors and of the winners of the first pot. *)
ReferencedIds(h) ==
    {Unwrap(a.player_id) : a \in {b \in Range(AllActions(h)) : IsSome(b.player_id)}}
        \cup (IF h.pots = <<>> THEN {}
              ELSE {h.pots[1].player_wins[k].player_id : k \in 1..Len(h.pots[1].player_wins)})

UnresolvedIds(h) == ReferencedIds(h) \ PlayerIds(h)

(* The hand with one more player, named "Unknown", at seat 0, under the id. *)
WithUnknown(h, id) ==
    [h EXCEPT !.players =
        <<[id |-> id, seat |-> 0, name |-> "Unknown", starting_stack |-> 0]>> \o @]

(* The text without its line k. *)
WithoutLine(text, k) == SubSeq(text, 1, k - 1) \o SubSeq(text, k + 1, Len(text))

(* C15: an action or a winner of the first pot whose id matches no player   *)
(* has its line all the same, under the name "Unknown", and seat 0 in a     *)
(* "collected" line; the text is the text of the hand in which a player     *)
(* "Unknown" at seat 0 has this id, but for the seat line of that player.   *)
C15_UnknownPlayer ==
    (call = "ohh_to_pokerstars_text" /\ ~ret.panic /\ arg.players # <<>>) =>
        /\ \A id \in UnresolvedIds(arg) :
              /\ ~Rendered(WithUnknown(arg, id)).panic
              /\ WithoutLine(Rendered(WithUnknown(arg, id)).text, 3) = ret.text
        /\ \A r \in 1..Len(arg.rounds) : \A i \in 1..Len(arg.rounds[r].actions) :
              LET a == arg.rounds[r].actions[i]
              IN  (/\ HasLine(arg, a)
                   /\ Unwrap(a.player_id) \notin PlayerIds(arg)
                   /\ a.action \in {"Fold", "Bet"}) =>
                      ret.text[LinePos(arg, r, i)]
                          \in {"Unknown: folds"}
                              \cup {"Unknown: bets " \o fmt_money(unwrap_or(a.amount, 0))
                                        \o FlagSuffix(a)}
                              \cup {"Unknown: raises " \o fmt_money(unwrap_or(a.amount, 0) - P)
                                        \o " to " \o fmt_money(unwrap_or(a.amount, 0))
                                        \o FlagSuffix(a) : P \in {PriorAmount(arg, r, i)}}
        /\ arg.pots # <<>> =>
              \A k \in 1..Len(arg.pots[1].player_wins) :
                  LET w == arg.pots[1].player_wins[k]
                  IN  w.player_id \notin PlayerIds(arg) =>
                          ret.text[Len(ret.text) - Len(arg.pots[1].player_wins) + k]
                              = "Seat 0: Unknown collected (" \o fmt_money(w.win_amount) \o ")"

(* A hand rendered in which an id that matches no player folds and wins. *)
C15_Witness ==
    /\ call = "ohh_to_pokerstars_text"
    /\ ~ret.panic
    /\ "9" \notin PlayerIds(arg)
    /\ Len(arg.rounds) = 1
    /\ Len(arg.rounds[1].actions) = 2
    /\ arg.rounds[1].actions[1].player_id = Some("9")
    /\ ret.text[LinePos(arg, 1, 1)] = "Unknown: folds"
    /\ ret.text[LinePos(arg, 1, 2)] = "Alice: checks"
    /\ arg.pots # <<>>
    /\ Len(arg.pots[1].player_wins) = 2
    /\ arg.pots[1].player_wins[1].player_id = "9"
    /\ arg.pots[1].player_wins[2].player_id = "2"
    /\ ret.text[Len(ret.text) - 1] = "Seat 0: Unknown collected ($3.97)"
    /\ ret.text[Len(ret.text)] = "Seat 1: Bob collected ($0.10)"

---------------------------------------------------------------------------
(* Ids written as integers and as strings.                                  *)

(* The decimal digits of the id numbers. *)
Digits(n) == CASE n = 1 -> "1" [] n = 2 -> "2" [] n = 12 -> "12"

(* The number a raw id writes, as an integer or as a string of digits. *)
IdNumber(v) ==
    CHOOSE n \in IdNumbers : IF v[1] = "int" THEN v[2] = n ELSE v[2] = Digits(n)

(* The raw hand with every id written as a string. *)
AllStrings(raw) ==
    LET str(v) == <<"str", Digits(IdNumber(v))>>
        opt(o) == IF o = <<>> THEN <<>> ELSE <<str(o[1])>>
    IN  [raw EXCEPT
            !.hero_player_id = opt(@),
            !.players = [k \in 1..Len(@) |-> [@[k] EXCEPT !.id = str(@)]],
            !.rounds = [r \in 1..Len(@) |->
                [@[r] EXCEPT !.actions = [i \in 1..Len(@) |->
                    [@[i] EXCEPT !.player_id = opt(@)]]]],
            !.pots = [p \in 1..Len(@) |->
                [@[p] EXCEPT !.player_wins = [k \in 1..Len(@) |->
                    [@[k] EXCEPT !.player_id = str(@)]]]]]

NameOfNumber(n) == CASE n = 12 -> "Alice" [] n = 2 -> "Bob" [] OTHER -> "Unknown"

SeatOfNumber(n) == CASE n = 12 -> "2" [] n = 2 -> "1" [] OTHER -> "0"

(* C16: an id written as the integer n and one written as the string of     *)
(* the digits of n decode to the same identifier, in the id of a player,    *)
(* of an actor, of the hero and of a winner: the decoded ids are the digit  *)
(* strings, the conversion is that of the hand with every id written as a   *)
(* string, and the actor, the hero and the winner are found among the       *)
(* players whatever the encoding of either side.                            *)
C16_IdsOneSpace ==
    call = "convert_ohh_file" =>
        LET raw == Unwrap(arg[1].ohh)
            hand == parse_ohh_chunks(arg).val[1]
            an == IdNumber(Unwrap(raw.rounds[1].actions[1].player_id))
            wn == IdNumber(raw.pots[1].player_wins[1].player_id)
            text == ret.res.val
        IN  /\ ~ret.panic
            /\ ret.res.ok
            /\ ret = Converted(<<Json(Some(AllStrings(raw)), None)>>)
            /\ \A k \in 1..Len(raw.players) :
                  hand.players[k].id = Digits(IdNumber(raw.players[k].id))
            /\ \A i \in 1..2 : hand.rounds[1].actions[i].player_id = Some(Digits(an))
            /\ hand.pots[1].player_wins[1].player_id = Digits(wn)
            /\ hand.hero_player_id
                  = IF raw.hero_player_id = <<>> THEN None
                    ELSE Some(Digits(IdNumber(raw.hero_player_id[1])))
            /\ NameOfNumber(an) \o ": folds" \in Range(text)
            /\ text[Len(text)] = "Seat " \o SeatOfNumber(wn) \o ": " \o NameOfNumber(wn)
                                     \o " collected ($0.40)"
            /\ ("Dealt to " \o NameOfNumber(an) \o " [Ah Kd]" \in Range(text))
                  <=> (raw.hero_player_id = <<>>
                          \/ IdNumber(raw.hero_player_id[1]) = an)

(* Players and hero written as integers, actor and winner as strings: the   *)
(* actor 12 is the hero and is Alice, the winner 2 is Bob.                  *)
C16_Witness ==
    /\ call = "convert_ohh_file"
    /\ Unwrap(arg[1].ohh).players[1].id = <<"int", 12>>
    /\ Unwrap(arg[1].ohh).hero_player_id = Some(<<"int", 12>>)
    /\ Unwrap(arg[1].ohh).rounds[1].actions[1].player_id = Some(<<"str", "12">>)
    /\ Unwrap(arg[1].ohh).pots[1].player_wins[1].player_id = <<"str", "2">>
    /\ ret.res.ok
    /\ "Dealt to Alice [Ah Kd]" \in Range(ret.res.val)
    /\ "Alice: folds" \in Range(ret.res.val)
    /\ "Seat 1: Bob collected ($0.40)" \in Range(ret.res.val)

---------------------------------------------------------------------------
(* The bet tracker and the rounds.                                          *)

(* The hand with round r as its only round. *)
OnlyRound(h, r) == [h EXCEPT !.rounds = <<h.rounds[r]>>]

(* C17: the bet tracker is scoped to one round: the line of a Bet or Raise, *)
(* with or without an amount, is the line it has in the hand made of its    *)
(* round alone, whatever was recorded under its action number in an earlier *)
(* round.                                                                   *)
C17_TrackerPerRound ==
    (call = "ohh_to_pokerstars_text" /\ ~ret.panic) =>
        \A r \in 1..Len(arg.rounds) : \A i \in 1..Len(arg.rounds[r].actions) :
            LET a == arg.rounds[r].actions[i]
            IN  (a.action \in {"Bet", "Raise"} /\ HasLine(arg, a)) =>
                    ret.text[LinePos(arg, r, i)]
                        = Rendered(OnlyRound(arg, r)).text[LinePos(OnlyRound(arg, r), 1, i)]

---------------------------------------------------------------------------
(* Rounds without a header.                                                 *)

(* The line of action i of round r, an action with a line (a Bet or Raise   *)
(* with an amount).                                                         *)
ActionLine(h, r, i) ==
    LET a == h.rounds[r].actions[i]
        n == name_by_id(h, Unwrap(a.player_id))
        amt == fmt_money(unwrap_or(a.amount, 0))
    IN  CASE a.action = "Post SB" -> n \o ": posts small blind " \o amt
          [] a.action = "Post BB" -> n \o ": posts big blind " \o amt
          [] a.action = "Post Ante" -> n \o ": posts the ante " \o amt
          [] a.action = "Dealt Cards" -> DealtTo(n, Unwrap(a.cards))
          [] a.action = "Call" -> n \o ": calls " \o amt \o FlagSuffix(a)
          [] a.action = "Bet" -> BetForm(h, r, i) \o FlagSuffix(a)
          [] a.action = "Raise" -> RaiseForm(h, r, i) \o FlagSuffix(a)
          [] OTHER -> PlainLine(h, a)

(* The lines of the actions of round r, by group, each group in order. *)
ActionLines(h, r) ==
    LET acts == h.rounds[r].actions
        IsPost(i) == HasLine(h, acts[i]) /\ acts[i].action \in Postings
        IsDeal(i) == HasLine(h, acts[i]) /\ acts[i].action = "Dealt Cards"
        IsOther(i) == HasLine(h, acts[i]) /\ ~PrintedFirst(acts[i])
        all == [i \in 1..Len(acts) |-> i]
        picked == SelectSeq(all, IsPost) \o SelectSeq(all, IsDeal) \o SelectSeq(all, IsOther)
    IN  [k \in 1..Len(picked) |-> ActionLine(h, r, picked[k])]

(* The lines of the text from the first line of round r to the summary. *)
FromRound(h, text, r) == SubSeq(text, LinesBefore(h, 1) + 1, Len(text) - Len(summarize(h)))

(* C18, as stated: a round of any street other than Preflop, Flop, Turn and *)
(* River, Showdown included, has no header line and no blank line: the      *)
(* lines of the round are the lines of its actions.                         *)
C18_NoHeaderButFourStreets ==
    (call = "ohh_to_pokerstars_text" /\ ~ret.panic /\ Len(arg.rounds) = 1) =>
        (arg.rounds[1].street \notin {"Preflop", "Flop", "Turn", "River"} =>
            FromRound(arg, ret.text, 1) = ActionLines(arg, 1))

(* C18, amended: a round of any street other than Preflop, Flop, Turn,      *)
(* River and Showdown has an empty header, which is suppressed: the lines   *)
(* of the round are the lines of its actions, with no header line and no    *)
(* blank line; a Showdown round has the header "*** SHOW DOWN ***" ahead of *)
(* the lines of its actions.                                                *)
C18_NoHeaderForOtherStreets ==
    (call = "ohh_to_pokerstars_text" /\ ~ret.panic /\ Len(arg.rounds) = 1) =>
        /\ arg.rounds[1].street \notin {"Preflop", "Flop", "Turn", "River", "Showdown"} =>
              /\ HeaderOf(arg, 1) = ""
              /\ FromRound(arg, ret.text, 1) = ActionLines(arg, 1)
        /\ arg.rounds[1].street = "Showdown" =>
              FromRound(arg, ret.text, 1) = <<"*** SHOW DOWN ***">> \o ActionLines(arg, 1)

(* A round of the street "preflop" rendered: a posting, a deal and a fold   *)
(* and no header.                                                           *)
C18_Witness ==
    /\ call = "ohh_to_pokerstars_text"
    /\ ~ret.panic
    /\ Len(arg.rounds) = 1
    /\ arg.rounds[1].street = "preflop"
    /\ Len(ret.text) = 9
    /\ SubSeq(ret.text, 5, 7)
          = <<"Bob: posts big blind $0.10", "Dealt to Alice [Ah Kd]", "Alice: folds">>
    /\ ret.text[8] = "*** SUMMARY ***"

---------------------------------------------------------------------------
(* Turn and River headers.                                                  *)

(* The cards of the rounds before round r whose street is in streets, in    *)
(* round order.                                                             *)
CardsBefore(h, r, streets) ==
    Flatten([k \in 1..(r - 1) |->
                IF h.rounds[k].street \in streets THEN h.rounds[k].cards ELSE <<>>])

(* The header of round r with two groups: the cards of the earlier streets  *)
(* and the cards revealed on round r.                                       *)
TwoGroups(h, r, marker, streets) ==
    marker \o " [" \o cards(CardsBefore(h, r, streets)) \o "] ["
           \o cards(h.rounds[r].cards) \o "]"

(* The header of round r with the cards of round r alone. *)
OneGroup(h, r, marker) == marker \o " [" \o cards(h.rounds[r].cards) \o "]"

(* C19: the header of a Turn round shows the 3 flop cards and then the card *)
(* revealed on the round when 4 board cards or more are known once the      *)
(* round's cards are added, the header of a River round the 4 flop and turn *)
(* cards and then the card revealed on the round when 5 or more are known;  *)
(* with fewer known cards the header shows the round's own cards alone.     *)
C19_CumulativeBoardHeader ==
    (call = "ohh_to_pokerstars_text" /\ ~ret.panic) =>
        \A r \in 1..Len(arg.rounds) :
            LET known == Len(AllBoardAt(arg, r))
                line == ret.text[HeaderPos(arg, r)]
            IN  /\ arg.rounds[r].street = "Turn" =>
                      line = IF known >= 4
                             THEN TwoGroups(arg, r, "*** TURN ***", {"Flop"})
                             ELSE OneGroup(arg, r, "*** TURN ***")
                /\ arg.rounds[r].street = "River" =>
                      line = IF known >= 5
                             THEN TwoGroups(arg, r, "*** RIVER ***", {"Flop", "Turn"})
                             ELSE OneGroup(arg, r, "*** RIVER ***")

---------------------------------------------------------------------------
(* The seats block.                                                         *)

(* The orders of n elements. *)
Orders(n) == {f \in [1..n -> 1..n] : \A i, j \in 1..n : i # j => f[i] # f[j]}

(* The first player of the Players list with the id pid. *)
FirstWithId(h, pid) ==
    h.players[CHOOSE k \in 1..Len(h.players) :
                 /\ h.players[k].id = pid
                 /\ \A j \in 1..(k - 1) : h.players[j].id # pid]

(* C20: the seats block has one "Seat <n>: <name> (<stack> in chips)" line  *)
(* for each player of the hand and no other, in non-decreasing order of     *)
(* seat number whatever the order of the Players list; the Players list of  *)
(* the hand keeps its order: the lines after the block name a player by the *)
(* first entry of the list with the id.                                     *)
C20_SeatsBlock ==
    (call = "ohh_to_pokerstars_text" /\ ~ret.panic) =>
        LET ps == arg.players
            n == Len(ps)
        IN  /\ Len(ret.text) >= 3 + n
            /\ \E f \in Orders(n) :
                  /\ \A k \in 1..n : ret.text[2 + k] = SeatLine(ps[f[k]])
                  /\ \A k \in 1..(n - 1) : ps[f[k]].seat <= ps[f[k + 1]].seat
            /\ ret.text[3 + n] \notin {SeatLine(p) : p \in SeatPlayers}
            /\ \A r \in 1..Len(arg.rounds) : \A i \in 1..Len(arg.rounds[r].actions) :
                  LET a == arg.rounds[r].actions[i]
                  IN  (/\ a.action = "Fold"
                       /\ a.player_id # None
                       /\ Unwrap(a.player_id) \in PlayerIds(arg)) =>
                          ret.text[LinePos(arg, r, i)]
                              = FirstWithId(arg, Unwrap(a.player_id)).name \o ": folds"

(* Dave, Alice and Carol listed in this order: the block has Carol (seat 1),*)
(* Alice (seat 2) and Dave (seat 10), and the fold by the id "1", the id of *)
(* Alice and of Carol, is Alice's.                                          *)
C20_Witness ==
    /\ call = "ohh_to_pokerstars_text"
    /\ ~ret.panic
    /\ arg.players = <<Dave, Alice, Carol>>
    /\ arg.rounds # <<>>
    /\ Len(ret.text) >= 7
    /\ SubSeq(ret.text, 3, 7)
          = <<"Seat 1: Carol ($0.50 in chips)",
              "Seat 2: Alice ($10.00 in chips)",
              "Seat 10: Dave ($1,234.56 in chips)",
              "*** HOLE CARDS ***",
              "Alice: folds">>

---------------------------------------------------------------------------
(* Actions without a line.                                                  *)

(* The action is of a kind outside the known ones, or a deal or a show      *)
(* without an actor.                                                        *)
Skipped(a) ==
    \/ a.action \notin KnownActions
    \/ a.action \in {"Dealt Cards", "Shows Cards"} /\ a.player_id = None

(* The hand without the skipped actions of its rounds. *)
Kept(h) ==
    [h EXCEPT !.rounds =
        [r \in 1..Len(h.rounds) |->
            [h.rounds[r] EXCEPT !.actions = SelectSeq(@, LAMBDA a : ~Skipped(a))]]]

(* C21: an action of a kind outside Post SB, Post BB, Post Ante, Dealt      *)
(* Cards, Fold, Check, Call, Bet, Raise, Shows Cards, Muck, and a Dealt     *)
(* Cards or Shows Cards action without an actor, has no line: the lines of  *)
(* the round are its header and the lines of its other actions, with no     *)
(* empty line and no line in place of the skipped action, and the text is   *)
(* the text of the hand without the skipped actions.                        *)
C21_SkippedActions ==
    (call = "ohh_to_pokerstars_text" /\ ~ret.panic /\ Len(arg.rounds) = 1) =>
        LET block == FromRound(arg, ret.text, 1)
            head == IF HeaderOf(arg, 1) = "" THEN <<>> ELSE <<HeaderOf(arg, 1)>>
            lines == ActionLines(Kept(arg), 1)
            posts == Cardinality({k \in 1..Len(lines) : lines[k] \in PostLines(arg)})
        IN  /\ block = IF arg.rounds[1].street = "Preflop"
                       THEN SubSeq(lines, 1, posts) \o head \o SubSeq(lines, posts + 1, Len(lines))
                       ELSE head \o lines
            /\ \A k \in 1..Len(block) : block[k] # ""
            /\ ~Rendered(Kept(arg)).panic
            /\ ret.text = Rendered(Kept(arg)).text

(* A Preflop round of a "Sit Out", a deal without an actor and a fold by    *)
(* Alice: the header and the fold, then the summary.                        *)
C21_Witness ==
    /\ call = "ohh_to_pokerstars_text"
    /\ ~ret.panic
    /\ Len(arg.rounds) = 1
    /\ Len(arg.rounds[1].actions) = 3
    /\ arg.rounds[1].actions[1].action = "Sit Out"
    /\ Skipped(arg.rounds[1].actions[2])
    /\ arg.rounds[1].actions[2].action = "Dealt Cards"
    /\ Len(ret.text) = 8
    /\ SubSeq(ret.text, 5, 7) = <<"*** HOLE CARDS ***", "Alice: folds", "*** SUMMARY ***">>

---------------------------------------------------------------------------
(* Hands of one file.                                                       *)

(* C22: no state crosses from one hand to another: in the text convert      *)
(* returns, the block of hand i is the text render gives for hand i alone,  *)
(* whatever hands come before and after it, which is also the text convert  *)
(* gives for the file of this hand alone; the blocks of two equal hands of  *)
(* a file are equal.                                                        *)
C22_HandsIndependent ==
    (call = "convert_ohh_file" /\ ~ret.panic /\ ret.res.ok) =>
        LET chunks == GoodChunks(arg)
            n == Len(chunks)
            alone == [k \in 1..n |-> Rendered(RecordOf(chunks[k])).text]
            text == ret.res.val
            Block(k) == SubSeq(text, BlockOffset(alone, k) + 1,
                               BlockOffset(alone, k) + Len(alone[k]))
        IN  /\ Len(text) = BlockOffset(alone, n) + Len(alone[n])
            /\ \A k \in 1..n :
                  /\ ~Rendered(RecordOf(chunks[k])).panic
                  /\ Block(k) = alone[k]
                  /\ Converted(chunks[k]).res = Ok(alone[k])
            /\ \A i, j \in 1..n :
                  RecordOf(chunks[i]) = RecordOf(chunks[j]) => Block(i) = Block(j)

(* The flop hand, then the turn hand twice: both turn blocks have the       *)
(* header of the turn card alone and the Raise without an amount as a bet.  *)
C22_Witness ==
    /\ call = "convert_ohh_file"
    /\ ~ret.panic
    /\ ret.res.ok
    /\ Len(GoodChunks(arg)) = 3
    /\ [k \in 1..3 |-> RecordOf(GoodChunks(arg)[k]).game_number] = <<"F", "T", "T">>
    /\ Len(ret.res.val) = 8 + 3 + 9 + 3 + 9
    /\ SubSeq(ret.res.val, 16, 18)
          = <<"*** TURN *** [Th]", "Bob: checks", "Alice: bets $0.00">>
    /\ SubSeq(ret.res.val, 28, 30)
          = <<"*** TURN *** [Th]", "Bob: checks", "Alice: bets $0.00">>

---------------------------------------------------------------------------
(* The bookkeeping of the scan.                                             *)

(* The action an iteration of the scan has just handled. *)
Scanned == arg'.h.rounds[1].actions[arg'.k]

(* An iteration of the scan. *)
ScanIteration == call = "scan" /\ call' = "scan" /\ arg'.k = arg.k + 1

(* C23: a Post SB, Post BB or Post Ante with an amount sets the running     *)
(* last-bet amount to its amount, larger or smaller than the amount before, *)
(* and adds no tracker entry and leaves the had-prior-bet flag as it was; a *)
(* Bet or Raise with an amount records (running amount before, its amount,  *)
(* flag before) under its action number, then the running amount is its     *)
(* amount and the flag is set.                                              *)
C23_TrackerUpdate ==
    [][ScanIteration =>
          /\ (Scanned.action \in Postings /\ IsSome(Scanned.amount)) =>
                /\ ret'.last_bet_amount = Unwrap(Scanned.amount)
                /\ ret'.tracker = ret.tracker
                /\ ret'.has_bet_this_street = ret.has_bet_this_street
          /\ (Scanned.action \in {"Bet", "Raise"} /\ IsSome(Scanned.amount)) =>
                /\ DOMAIN ret'.tracker = DOMAIN ret.tracker \cup {Scanned.action_number}
                /\ ret'.tracker[Scanned.action_number]
                      = <<ret.last_bet_amount, Unwrap(Scanned.amount), ret.has_bet_this_street>>
                /\ \A n \in DOMAIN ret.tracker \ {Scanned.action_number} :
                      ret'.tracker[n] = ret.tracker[n]
                /\ ret'.last_bet_amount = Unwrap(Scanned.amount)
                /\ ret'.has_bet_this_street]_vars

(* Post BB 0.10, Post Ante 0.02 and Bet 0.30 scanned: the entry of the Bet  *)
(* holds the ante, the smaller and later posting, and no flag.              *)
C23_Witness ==
    /\ call = "scan"
    /\ arg.k = 3
    /\ [i \in 1..3 |-> arg.h.rounds[1].actions[i].action] = <<"Post BB", "Post Ante", "Bet">>
    /\ arg.h.rounds[1].actions[1].amount = Some(100)
    /\ arg.h.rounds[1].actions[3].amount = Some(300)
    /\ DOMAIN ret.tracker = {2}
    /\ ret.tracker[2] = <<20, 300, FALSE>>
    /\ ret.last_bet_amount = 300
    /\ ret.has_bet_this_street

---------------------------------------------------------------------------
(* The three groups of a round.                                             *)

(* The sequence without its element k. *)
Without(seq, k) == SubSeq(seq, 1, k - 1) \o SubSeq(seq, k + 1, Len(seq))

(* C24: the regrouping is a stable partition: the lines of a round, its     *)
(* header apart, are the lines of its postings in the order of the source,  *)
(* then those of its deals in the order of the source, then those of its    *)
(* other actions in the order of the source: each action with a line has    *)
(* its line once, in its group, and no line is lost or added.               *)
C24_StablePartition ==
    (call = "ohh_to_pokerstars_text" /\ ~ret.panic /\ Len(arg.rounds) = 1) =>
        LET block == FromRound(arg, ret.text, 1)
            at == HeaderPos(arg, 1) - LinesBefore(arg, 1)
            lines == IF HeaderCount(arg.rounds[1]) = 1 THEN Without(block, at) ELSE block
        IN  /\ Len(block) = LineCount(arg, arg.rounds[1])
            /\ HeaderCount(arg.rounds[1]) = 1 => block[at] = HeaderOf(arg, 1)
            /\ lines = ActionLines(arg, 1)

(* A Preflop round given as a bet, a posting, a fold: the posting, the      *)
(* header, then the bet and the fold in the order of the source.            *)
C24_Witness ==
    /\ call = "ohh_to_pokerstars_text"
    /\ ~ret.panic
    /\ Len(arg.rounds) = 1
    /\ arg.rounds[1].street = "Preflop"
    /\ [i \in 1..Len(arg.rounds[1].actions) |-> arg.rounds[1].actions[i].action]
          = <<"Bet", "Post BB", "Fold">>
    /\ FromRound(arg, ret.text, 1)
          = <<"Bob: posts big blind $0.10", "*** HOLE CARDS ***",
              "Bob: bets $0.10", "Alice: folds">>

---------------------------------------------------------------------------
(* Actions without an actor.                                                *)

(* The lines of the three groups of a scan state. *)
Buckets(st) == <<st.blind_lines, st.dealt_lines, st.other_lines>>

(* The amount bookkeeping of a scan state. *)
Bookkeeping(st) == <<st.last_bet_amount, st.tracker, st.has_bet_this_street>>

(* C25: an action without an actor has no line, whatever its kind, and its  *)
(* amount is taken into account all the same, as if it had an actor: a      *)
(* posting with an amount sets the running amount, a Bet or Raise with an   *)
(* amount has its tracker entry and sets the flag; the line of a later Bet  *)
(* or Raise of the street is measured against it.                           *)
C25_ActorlessBookkeeping ==
    [][ScanIteration =>
          /\ Scanned.player_id = None =>
                /\ Buckets(ret') = Buckets(ret)
                /\ Bookkeeping(ret')
                      = Bookkeeping(ScanStep(arg.h, ret, [Scanned EXCEPT !.player_id = Some("1")]))
                /\ (Scanned.action \in Postings /\ IsSome(Scanned.amount)) =>
                      ret'.last_bet_amount = Unwrap(Scanned.amount)
                /\ (Scanned.action \in {"Bet", "Raise"} /\ IsSome(Scanned.amount)) =>
                      /\ Scanned.action_number \in DOMAIN ret'.tracker
                      /\ ret'.tracker[Scanned.action_number][2] = Unwrap(Scanned.amount)
                      /\ ret'.last_bet_amount = Unwrap(Scanned.amount)
                      /\ ret'.has_bet_this_street
          /\ IsPriced(arg.h, 1, arg'.k, "Bet") =>
                ret'.other_lines = Append(ret.other_lines, BetForm(arg.h, 1, arg'.k))
          /\ IsPriced(arg.h, 1, arg'.k, "Raise") =>
                ret'.other_lines = Append(ret.other_lines, RaiseForm(arg.h, 1, arg'.k))]_vars

(* An ante of 0.02 and a Bet of 0.20, both without an actor, then a Bet of  *)
(* 0.30 by Alice: no line for the first two, and Alice raises by 0.10.      *)
C25_Witness ==
    /\ call = "scan"
    /\ arg.k = 3
    /\ [i \in 1..3 |-> arg.h.rounds[1].actions[i].action] = <<"Post Ante", "Bet", "Bet">>
    /\ [i \in 1..3 |-> arg.h.rounds[1].actions[i].player_id] = <<None, None, Some("1")>>
    /\ ret.blind_lines = <<>>
    /\ ret.other_lines = <<"Alice: raises $0.10 to $0.30">>
    /\ ret.tracker[1] = <<20, 200, FALSE>>
    /\ ret.tracker[2] = <<200, 300, TRUE>>

---------------------------------------------------------------------------
(* Actions that leave the bookkeeping alone.                                *)

(* C26: an action that is no posting, Bet or Raise (a Call, Check, Fold,    *)
(* Dealt Cards, Shows Cards, Muck, a kind outside the known ones), with or  *)
(* without an amount, and a posting, Bet or Raise without an amount, leaves *)
(* the running last-bet amount, the had-prior-bet flag and the tracker as   *)
(* they were; a Raise right after a Call is measured against the last       *)
(* amount posted, bet or raised, not against the amount of the Call.        *)
C26_BookkeepingFrame ==
    [][ScanIteration =>
          /\ (Scanned.action \notin Postings \cup {"Bet", "Raise"} \/ Scanned.amount = None) =>
                Bookkeeping(ret') = Bookkeeping(ret)
          /\ (/\ arg'.k >= 2
              /\ IsPriced(arg.h, 1, arg'.k, "Raise")
              /\ IsPriced(arg.h, 1, arg.k, "Call")) =>
                /\ ret'.tracker[Scanned.action_number][1] = PriorAmount(arg.h, 1, arg.k)
                /\ ret'.other_lines = Append(ret.other_lines, RaiseForm(arg.h, 1, arg'.k))]_vars

(* Post BB 0.10, Call 0.30, Raise 0.60 scanned: the raise is by 0.50, from  *)
(* the posting, not by 0.30, from the call.                                 *)
C26_Witness ==
    /\ call = "scan"
    /\ arg.k = 3
    /\ [i \in 1..3 |-> arg.h.rounds[1].actions[i].action] = <<"Post BB", "Call", "Raise">>
    /\ arg.h.rounds[1].actions[1].amount = Some(100)
    /\ arg.h.rounds[1].actions[3].player_id = Some("2")
    /\ ret.blind_lines = <<"Bob: posts big blind $0.10">>
    /\ ret.other_lines = <<"Bob: calls $0.30", "Bob: raises $0.50 to $0.60">>
    /\ ret.tracker[2] = <<100, 600, FALSE>>

===========================================================================
